---- MODULE Spec2Model ----
(***************************************************************************)
(* A model of the avram parser-combinator toolkit.                         *)
(*                                                                         *)
(*   - the generic Scanner of package avramx (a buffer over a pull-based   *)
(*     Iterator) and the avramx combinators that run against it;           *)
(*   - the text Scanner of package avram and its combinators;              *)
(*   - Fix and its one-time materialisation under concurrent callers;      *)
(*   - the Lexer of package avramx/lex with its producer goroutine, and    *)
(*     the state functions of the SQL lexer it runs.                       *)
(*                                                                         *)
(* Parsers are represented by syntax trees (records with an "op" field)    *)
(* and executed by the recursive operator Run, which transcribes the body  *)
(* of each combinator's closure.  Each run records the calls it makes to   *)
(* its component parsers in a trace, so that "q is not run" and "p ran     *)
(* from position k" are observable.                                        *)
(***************************************************************************)
EXTENDS Integers, Sequences, FiniteSets, TLC

VARIABLES
    src,        \* the items the Iterator behind the generic Scanner yields
    scanner,    \* avramx.Scanner: [pos, buffer, it]; it = items pulled so far
    chk,        \* a client's saved position and what it read since
    last,       \* the last operation applied and what it returned
    input,      \* the bytes of the string behind the text Scanner
    text,       \* avram.Scanner: [pos, width, line, panicked]
    fix,        \* Fix(f): the sync.Once, the parser p it guards, calls of f
    callers,    \* the goroutines invoking the parser Fix returned
    lexer,      \* lex.Lexer: [start, pos, width, line, err] over input
    tokens,     \* the Lexer's unbuffered token channel
    prod,       \* the Lexer's producer goroutine
    cons        \* the consumer of the Lexer: what Next has returned

vars == <<src, scanner, chk, last, input, text, fix, callers, lexer, tokens, prod, cons>>

\* The variables of each component.
gvars == <<src, scanner, chk>>

tvars == <<input, text>>

fvars == <<fix, callers>>

lvars == <<lexer, tokens, prod, cons>>

(***************************************************************************)
(* Bounds                                                                  *)
(***************************************************************************)
MaxInput == 3

Tok == {"a", "b"}

Zero == ""

NoErr == <<>>

ErrEOF == <<"EOF">>

\* Nested calls of a Fix parser a goroutine's stack holds.
MaxNest == 6

\* runtime: goroutine stack exceeds its limit; fatal error: stack overflow
StackOverflow == <<"stack overflow">>

RECURSIVE SeqsUpTo(_, _)
SeqsUpTo(S, n) ==
    IF n = 0 THEN {<<>>}
    ELSE LET shorter == SeqsUpTo(S, n - 1)
         IN shorter \cup {Append(q, x) : q \in {r \in shorter : Len(r) = n - 1}, x \in S}

IsPrefix(a, b) == Len(a) <= Len(b) /\ SubSeq(b, 1, Len(a)) = a

(***************************************************************************)
(* avramx.Scanner                                                          *)
(***************************************************************************)
NewScanner == [pos |-> 0, buffer |-> <<>>, it |-> 0, trace |-> <<>>]

advance_Repeat(s) ==
    IF s.it >= Len(src)
    THEN [s |-> s, err |-> ErrEOF]
    ELSE [s |-> [s EXCEPT !.buffer = Append(@, src[s.it + 1])], err |-> NoErr]

\* SliceIterator.Next / Scanner.advance: pull one item and buffer it.
advance(s) ==
    IF s.it >= Len(src)
    THEN [s |-> s, err |-> ErrEOF]
    ELSE [s |-> [s EXCEPT !.buffer = Append(@, src[s.it + 1]), !.it = @ + 1],
          err |-> NoErr]

Read_AlwaysAdvance(s) ==
    LET a == advance(s)
    IN IF a.err # NoErr /\ s.pos >= Len(s.buffer)
       THEN [s |-> s, err |-> a.err, ok |-> FALSE, val |-> Zero]
       ELSE [s |-> [a.s EXCEPT !.pos = @ + 1], err |-> NoErr,
             ok |-> TRUE, val |-> a.s.buffer[s.pos + 1]]

Read(s) ==
    LET a == IF s.pos >= Len(s.buffer) THEN advance(s) ELSE [s |-> s, err |-> NoErr]
    IN IF a.err # NoErr
       THEN [s |-> s, err |-> a.err, ok |-> FALSE, val |-> Zero]
       ELSE [s |-> [a.s EXCEPT !.pos = @ + 1], err |-> NoErr,
             ok |-> TRUE, val |-> a.s.buffer[s.pos + 1]]

Unread_NoGuard(s) ==
    [s |-> [s EXCEPT !.pos = @ - 1], err |-> NoErr, ok |-> TRUE, val |-> Zero]

Unread(s) ==
    IF s.pos <= 0
    THEN [s |-> s, err |-> <<"no elements to unread">>, ok |-> FALSE, val |-> Zero]
    ELSE [s |-> [s EXCEPT !.pos = @ - 1], err |-> NoErr, ok |-> TRUE, val |-> Zero]

(***************************************************************************)
(* Parsers as syntax trees                                                 *)
(***************************************************************************)
\* rule(got) returns nil exactly for the items in accept.
Match(accept) == [accept |-> accept, op |-> "Match"]

Return(v) == [op |-> "Return", v |-> v]

Fail(e) == [op |-> "Fail", e |-> e]

DiscardLeft(p, q) == [q |-> q, op |-> "DiscardLeft", p |-> p]

Or(p, q) == [q |-> q, op |-> "Or", p |-> p]

DiscardRight(p, q) == [q |-> q, op |-> "DiscardRight", p |-> p]

Wrap_RecursesFirst(left, p, right) == DiscardRight(DiscardLeft(p, left), right)

\* DiscardRight(DiscardLeft(left, p), right)
Wrap(left, p, right) == DiscardRight(DiscardLeft(left, p), right)

\* Fix(f): f is known by name, see CallFix.
Fix(f) == [op |-> "Fix", f |-> f]

Choice(msg, ps) == [op |-> "Choice", msg |-> msg, ps |-> ps]

Many(p) == [op |-> "Many", p |-> p]

\* Functions handed to combinators are records naming what they compute.
Lift(f, p) == [op |-> "Lift", p |-> p, f |-> f]

Lift2(f, p1, p2) == [op |-> "Lift2", f |-> f, p1 |-> p1, p2 |-> p2]

Bind(p, f) == [op |-> "Bind", p |-> p, f |-> f]

Both(p, q) == Lift2([fn |-> "MakePair"], p, q)

Lift3(f, p1, p2, p3) == [op |-> "Lift3", f |-> f, p1 |-> p1, p2 |-> p2, p3 |-> p3]

Lift4(f, p1, p2, p3, p4) ==
    [op |-> "Lift4", f |-> f, p1 |-> p1, p2 |-> p2, p3 |-> p3, p4 |-> p4]

List(ps) == [op |-> "List", ps |-> ps]

ChainL1(p, opp) == [op |-> "ChainL1", p |-> p, opp |-> opp]

Count(n, p) == [n |-> n, op |-> "Count", p |-> p]

Many1_NeedsTwo(p) == Lift2([fn |-> "prepend"], p, Lift2([fn |-> "prepend"], p, Many(p)))

\* Lift2(success2(prepend), p, Many(p))
Many1(p) == Lift2([fn |-> "prepend"], p, Many(p))

ManyTill(p, e) == [op |-> "ManyTill", e |-> e, p |-> p]

\* Lift2(success2(prepend), p, Many(DiscardLeft(s, p)))
SepBy1(sep, p) == Lift2([fn |-> "prepend"], p, Many(DiscardLeft(sep, p)))

SepBy_NoFallback(sep, p) == SepBy1(sep, p)

\* Or(SepBy1(s, p), Return([]B{}))
SepBy(sep, p) == Or(SepBy1(sep, p), Return(<<>>))

\* A *A is the empty sequence (nil) or the one-element sequence of the value
\* it points to.
Maybe(p) == [op |-> "Maybe", p |-> p]

LookAhead(p) == [op |-> "LookAhead", p |-> p]

Option(fallback, p) == [op |-> "Option", p |-> p, fallback |-> fallback]

\* chain(acc) of ChainR1: the parser built for the accumulated value acc.
chain_KeepsOperator(cp, acc) ==
    Or(Lift2([fn |-> "applyAcc", acc |-> acc], cp.opp,
             Or(Bind(cp.p, [fn |-> "chain", cp |-> cp]), Return(acc))),
       Return(acc))

chain(cp, acc) ==
    Or(Lift2([fn |-> "applyAcc", acc |-> acc], cp.opp,
             Bind(cp.p, [fn |-> "chain", cp |-> cp])),
       Return(acc))

ChainR1(p, opp) == Bind(p, [fn |-> "chain", cp |-> [p |-> p, opp |-> opp]])

\* The binary function an operator parser returns, applied: values are
\* fully parenthesised token sequences, so the order of application shows.
CallOp(f, x, y) == <<"(">> \o x \o <<f>> \o y \o <<")">>

\* f(a) for the functions given to Lift.
Call1(f, a) == CASE f.fn = "unit" -> <<a>>

\* f(a, b) for the functions given to Lift2.
Call2(f, a, b) ==
    CASE f.fn = "MakePair" -> [Left |-> a, Right |-> b]
      [] f.fn = "applyAcc" -> CallOp(a, f.acc, b)
      [] f.fn = "prepend" -> <<a>> \o b

\* f(a, b, c) and f(a, b, c, d) for the functions given to Lift3 and Lift4.
Call3(f, a, b, c) == CASE f.fn = "tuple" -> <<a, b, c>>

Call4(f, a, b, c, d) == CASE f.fn = "tuple" -> <<a, b, c, d>>

\* f(r) for the functions given to Fix, r being the parser Fix returned:
\* "nested" is the grammar of TestFix, a | b nested b; "list" is right
\* recursive, a (b list)?; "left" is left recursive, a | left b.
CallFix(f, r) ==
    CASE f = "nested" -> Or(Match({"a"}), Wrap(Match({"b"}), r, Match({"b"})))
      [] f = "list" -> DiscardLeft(Match({"a"}),
                                   Or(DiscardLeft(Match({"b"}), r), Return("r")))
      [] f = "left" -> Or(Match({"a"}), DiscardLeft(r, Match({"b"})))

\* f(a) for the parser-returning functions given to Bind.
\* "again" returns the parser that accepts the item just parsed once more.
CallBind(f, a) ==
    CASE f.fn = "chain" -> chain(f.cp, a)
      [] f.fn = "again" -> Match({a})

Log(s, ev, path, ok, val, err) ==
    [s EXCEPT !.trace = Append(@, [pos |-> s.pos, err |-> err, ok |-> ok,
                                   val |-> val, ev |-> ev, path |-> path])]

Failure(s, err) == [s |-> s, err |-> err, ok |-> FALSE, val |-> Zero]

Success(s, val) == [s |-> s, err |-> NoErr, ok |-> TRUE, val |-> val]

RECURSIVE Run(_, _, _)

RunMatch(p, s) ==
    LET r == Read(s)
    IN IF ~r.ok THEN Failure(r.s, r.err)
       ELSE IF r.val \notin p.accept
            THEN Failure(r.s, <<"rule">>)
            ELSE Success(r.s, r.val)

RunDiscardLeft_SwallowsQ(p, s, path) ==
    LET r1 == Run(p.p, s, Append(path, 1))
    IN IF ~r1.ok THEN Failure(r1.s, r1.err)
       ELSE LET r2 == Run(p.q, r1.s, Append(path, 2))
            IN IF ~r2.ok THEN Success(r2.s, Zero) ELSE r2

RunDiscardLeft(p, s, path) ==
    LET r1 == Run(p.p, s, Append(path, 1))
    IN IF ~r1.ok THEN Failure(r1.s, r1.err)
       ELSE Run(p.q, r1.s, Append(path, 2))

RunDiscardRight(p, s, path) ==
    LET r1 == Run(p.p, s, Append(path, 1))
    IN IF ~r1.ok THEN Failure(r1.s, r1.err)
       ELSE LET r2 == Run(p.q, r1.s, Append(path, 2))
            IN IF ~r2.ok THEN Failure(r2.s, r2.err)
               ELSE Success(r2.s, r1.val)

\* The calls of r that have not returned when the parser at `path` runs: the
\* parser f returned is run at index 0 below r.
Depth(path) == Len(SelectSeq(path, LAMBDA i : i = 0))

\* r = func(s) { once.Do(func() { p = f(r) }); return p(s) }. The goroutine
\* dies of a stack overflow when the calls nest beyond what its stack holds.
RunFix(p, s, path) ==
    IF Depth(path) >= MaxNest THEN Failure(s, StackOverflow)
    ELSE Run(CallFix(p.f, p), s, Append(path, 0))

RunOr_NoReset(p, s, path) ==
    LET r1 == Run(p.p, s, Append(path, 1))
    IN IF r1.ok THEN r1
       ELSE LET r2 == Run(p.q, r1.s, Append(path, 2))
            IN IF ~r2.ok THEN Failure(r2.s, r1.err \o r2.err)
               ELSE r2

RunOr(p, s, path) ==
    LET start == s.pos
        r1 == Run(p.p, s, Append(path, 1))
    IN IF r1.ok THEN r1
       ELSE LET r2 == Run(p.q, [r1.s EXCEPT !.pos = start], Append(path, 2))
            IN IF ~r2.ok THEN Failure(r2.s, r1.err \o r2.err)
               ELSE r2

\* fmt.Errorf("expected %s: %w", msg, errs)
Expected(msg, errs) == <<"expected", msg>> \o errs

RECURSIVE ChoiceLoop_NoReset(_, _, _, _, _)
ChoiceLoop_NoReset(p, s, path, i, errs) ==
    IF i > Len(p.ps) THEN Failure(s, Expected(p.msg, errs))
    ELSE LET r == Run(p.ps[i], s, Append(path, i))
         IN IF r.ok THEN r
            ELSE ChoiceLoop_NoReset(p, r.s, path, i + 1, errs \o r.err)

RECURSIVE ChoiceLoop(_, _, _, _, _, _)
ChoiceLoop(p, s, path, start, i, errs) ==
    IF i > Len(p.ps) THEN Failure(s, Expected(p.msg, errs))
    ELSE LET r == Run(p.ps[i], s, Append(path, i))
         IN IF r.ok THEN r
            ELSE ChoiceLoop(p, [r.s EXCEPT !.pos = start], path, start, i + 1,
                            errs \o r.err)

RunChoice_NoReset(p, s, path) == ChoiceLoop_NoReset(p, s, path, 1, NoErr)

RunChoice(p, s, path) == ChoiceLoop(p, s, path, s.pos, 1, NoErr)

RECURSIVE ManyLoop(_, _, _, _)
ManyLoop(p, s, path, out) ==
    LET checkpoint == s.pos
        r == Run(p.p, s, Append(path, 1))
    IN IF ~r.ok
       THEN Success([r.s EXCEPT !.pos = checkpoint], out)
       ELSE ManyLoop(p, r.s, path, Append(out, r.val))

RECURSIVE ManyLoop_NoReset(_, _, _, _)
ManyLoop_NoReset(p, s, path, out) ==
    LET r == Run(p.p, s, Append(path, 1))
    IN IF ~r.ok
       THEN Success(r.s, out)
       ELSE ManyLoop_NoReset(p, r.s, path, Append(out, r.val))

RunMany_NoReset(p, s, path) == ManyLoop_NoReset(p, s, path, <<>>)

RunMany(p, s, path) == ManyLoop(p, s, path, <<>>)

RECURSIVE CountLoop_Restoring(_, _, _, _, _)
CountLoop_Restoring(p, s, path, i, out) ==
    IF i >= p.n THEN Success(s, out)
    ELSE LET r == Run(p.p, s, Append(path, 1))
         IN IF ~r.ok THEN Failure([r.s EXCEPT !.pos = s.pos], r.err)
            ELSE CountLoop_Restoring(p, r.s, path, i + 1, Append(out, r.val))

\* for i := 0; i < n; i++ { ... }
RECURSIVE CountLoop(_, _, _, _, _)
CountLoop(p, s, path, i, out) ==
    IF i >= p.n THEN Success(s, out)
    ELSE LET r == Run(p.p, s, Append(path, 1))
         IN IF ~r.ok THEN Failure(r.s, r.err)
            ELSE CountLoop(p, r.s, path, i + 1, Append(out, r.val))

RunCount(p, s, path) == CountLoop(p, s, path, 0, <<>>)

RECURSIVE ManyTillLoop_NoReset(_, _, _, _)
ManyTillLoop_NoReset(p, s, path, acc) ==
    LET re == Run(p.e, s, Append(path, 2))
    IN IF re.ok THEN Success(re.s, acc)
       ELSE LET el == Run(p.p, re.s, Append(path, 1))
            IN IF ~el.ok THEN Failure(el.s, el.err)
               ELSE ManyTillLoop_NoReset(p, el.s, path, Append(acc, el.val))

RECURSIVE ManyTillLoop(_, _, _, _)
ManyTillLoop(p, s, path, acc) ==
    LET checkpoint == s.pos
        re == Run(p.e, s, Append(path, 2))
    IN IF re.ok THEN Success(re.s, acc)
       ELSE LET el == Run(p.p, [re.s EXCEPT !.pos = checkpoint], Append(path, 1))
            IN IF ~el.ok THEN Failure(el.s, el.err)
               ELSE ManyTillLoop(p, el.s, path, Append(acc, el.val))

RunManyTill(p, s, path) == ManyTillLoop(p, s, path, <<>>)

RunMaybe_NoRestore(p, s, path) ==
    LET r == Run(p.p, s, Append(path, 1))
    IN IF ~r.ok THEN Success(r.s, <<>>)
       ELSE Success(r.s, <<r.val>>)

RunMaybe(p, s, path) ==
    LET checkpoint == s.pos
        r == Run(p.p, s, Append(path, 1))
    IN IF ~r.ok THEN Success([r.s EXCEPT !.pos = checkpoint], <<>>)
       ELSE Success(r.s, <<r.val>>)

RunLookAhead_OnFailure(p, s, path) ==
    LET checkpoint == s.pos
        r == Run(p.p, s, Append(path, 1))
    IN IF ~r.ok THEN [r EXCEPT !.s.pos = checkpoint] ELSE r

\* The deferred function runs on every return.
RunLookAhead(p, s, path) ==
    LET checkpoint == s.pos
        r == Run(p.p, s, Append(path, 1))
    IN [r EXCEPT !.s.pos = checkpoint]

RunOption(p, s, path) ==
    LET r == Run(p.p, s, Append(path, 1))
    IN IF ~r.ok THEN Success(r.s, p.fallback)
       ELSE Success(r.s, r.val)

RunLift(p, s, path) ==
    LET r == Run(p.p, s, Append(path, 1))
    IN IF ~r.ok THEN Failure(r.s, r.err)
       ELSE Success(r.s, Call1(p.f, r.val))

RunLift2(p, s, path) ==
    LET r1 == Run(p.p1, s, Append(path, 1))
    IN IF ~r1.ok THEN Failure(r1.s, r1.err)
       ELSE LET r2 == Run(p.p2, r1.s, Append(path, 2))
            IN IF ~r2.ok THEN Failure(r2.s, r2.err)
               ELSE Success(r2.s, Call2(p.f, r1.val, r2.val))

RunBind(p, s, path) ==
    LET r == Run(p.p, s, Append(path, 1))
    IN IF ~r.ok THEN Failure(r.s, r.err)
       ELSE Run(CallBind(p.f, r.val), r.s, Append(path, 2))

RunLift3(p, s, path) ==
    LET r1 == Run(p.p1, s, Append(path, 1))
    IN IF ~r1.ok THEN Failure(r1.s, r1.err)
       ELSE LET r2 == Run(p.p2, r1.s, Append(path, 2))
            IN IF ~r2.ok THEN Failure(r2.s, r2.err)
               ELSE LET r3 == Run(p.p3, r2.s, Append(path, 3))
                    IN IF ~r3.ok THEN Failure(r3.s, r3.err)
                       ELSE Success(r3.s, Call3(p.f, r1.val, r2.val, r3.val))

RunLift4(p, s, path) ==
    LET r1 == Run(p.p1, s, Append(path, 1))
    IN IF ~r1.ok THEN Failure(r1.s, r1.err)
       ELSE LET r2 == Run(p.p2, r1.s, Append(path, 2))
            IN IF ~r2.ok THEN Failure(r2.s, r2.err)
               ELSE LET r3 == Run(p.p3, r2.s, Append(path, 3))
                    IN IF ~r3.ok THEN Failure(r3.s, r3.err)
                       ELSE LET r4 == Run(p.p4, r3.s, Append(path, 4))
                            IN IF ~r4.ok THEN Failure(r4.s, r4.err)
                               ELSE Success(r4.s,
                                            Call4(p.f, r1.val, r2.val, r3.val, r4.val))

RECURSIVE ListLoop_RunsAll(_, _, _, _, _)
ListLoop_RunsAll(p, s, path, i, out) ==
    IF i > Len(p.ps) THEN Success(s, out)
    ELSE LET r == Run(p.ps[i], s, Append(path, i))
         IN IF ~r.ok
            THEN LET rest == ListLoop_RunsAll(p, r.s, path, i + 1, out)
                 IN Failure(rest.s, r.err)
            ELSE ListLoop_RunsAll(p, r.s, path, i + 1, Append(out, r.val))

RECURSIVE ListLoop(_, _, _, _, _)
ListLoop(p, s, path, i, out) ==
    IF i > Len(p.ps) THEN Success(s, out)
    ELSE LET r == Run(p.ps[i], s, Append(path, i))
         IN IF ~r.ok THEN Failure(r.s, r.err)
            ELSE ListLoop(p, r.s, path, i + 1, Append(out, r.val))

RunList(p, s, path) == ListLoop(p, s, path, 1, <<>>)

RECURSIVE ChainL1Loop_Swapped(_, _, _, _)
ChainL1Loop_Swapped(p, s, path, value) ==
    LET checkpoint == s.pos
        x == Run(Both(p.opp, p.p), s, Append(path, 2))
    IN IF ~x.ok
       THEN Success([x.s EXCEPT !.pos = checkpoint], value)
       ELSE ChainL1Loop_Swapped(p, x.s, path, CallOp(x.val.Left, x.val.Right, value))

RECURSIVE ChainL1Loop(_, _, _, _)
ChainL1Loop(p, s, path, value) ==
    LET checkpoint == s.pos
        x == Run(Both(p.opp, p.p), s, Append(path, 2))
    IN IF ~x.ok
       THEN Success([x.s EXCEPT !.pos = checkpoint], value)
       ELSE ChainL1Loop(p, x.s, path, CallOp(x.val.Left, value, x.val.Right))

RunChainL1(p, s, path) ==
    LET r == Run(p.p, s, Append(path, 1))
    IN IF ~r.ok THEN Failure(r.s, r.err)
       ELSE ChainL1Loop(p, r.s, path, r.val)

Run(p, s, path) ==
    LET s0 == Log(s, "call", path, TRUE, Zero, NoErr)
        r == CASE p.op = "Match" -> RunMatch(p, s0)
               [] p.op = "Return" -> Success(s0, p.v)
               [] p.op = "Fail" -> Failure(s0, p.e)
               [] p.op = "DiscardLeft" -> RunDiscardLeft(p, s0, path)
               [] p.op = "DiscardRight" -> RunDiscardRight(p, s0, path)
               [] p.op = "Fix" -> RunFix(p, s0, path)
               [] p.op = "Or" -> RunOr(p, s0, path)
               [] p.op = "Choice" -> RunChoice(p, s0, path)
               [] p.op = "Many" -> RunMany(p, s0, path)
               [] p.op = "Count" -> RunCount(p, s0, path)
               [] p.op = "ManyTill" -> RunManyTill(p, s0, path)
               [] p.op = "Maybe" -> RunMaybe(p, s0, path)
               [] p.op = "LookAhead" -> RunLookAhead(p, s0, path)
               [] p.op = "Option" -> RunOption(p, s0, path)
               [] p.op = "Lift" -> RunLift(p, s0, path)
               [] p.op = "Lift2" -> RunLift2(p, s0, path)
               [] p.op = "Bind" -> RunBind(p, s0, path)
               [] p.op = "Lift3" -> RunLift3(p, s0, path)
               [] p.op = "Lift4" -> RunLift4(p, s0, path)
               [] p.op = "List" -> RunList(p, s0, path)
               [] p.op = "ChainL1" -> RunChainL1(p, s0, path)
    IN [r EXCEPT !.s = Log(r.s, "ret", path, r.ok, r.val, r.err)]

\* The calls and returns of the component parser at `path` within a trace.
Calls(trace, path) == SelectSeq(trace, LAMBDA e : e.ev = "call" /\ e.path = path)

Rets(trace, path) == SelectSeq(trace, LAMBDA e : e.ev = "ret" /\ e.path = path)

(***************************************************************************)
(* Component parsers the actions draw from                                 *)
(***************************************************************************)
PA == Match({"a"})

PB == Match({"b"})

\* Reads one item and then fails: the failingParser of TestOrWithConsumption.
ReadFail == DiscardLeft(Match(Tok), Fail(<<"AnError">>))

\* Consumes "a" and then requires "b": fails after partial consumption.
PAB == DiscardLeft(PA, PB)

Parsers == <<PA, PB, ReadFail, PAB, Return("r"), Fail(<<"fail">>)>>

\* The parsers among them that consume input whenever they succeed.
Consuming == <<PA, PB, ReadFail, PAB>>

(***************************************************************************)
(* Specification of the generic Scanner and its combinators                *)
(***************************************************************************)
\* avram.NewScanner: the zero Scanner over the input.
NewTextScanner == [pos |-> 0, width |-> <<>>, line |-> 0, panicked |-> FALSE]

\* The components a specification leaves out stay in these states.
FixUnused == fix = <<>> /\ callers = <<>>

LexUnused == lexer = <<>> /\ tokens = <<>> /\ prod = <<>> /\ cons = <<>>

\* No call is in progress: the caller has taken the last result.
Idle == [op |-> "idle"]

NoChk == [pos |-> 0, it |-> 0, phase |-> 0, first |-> <<>>, second |-> <<>>]

Snapshot(s) == [pos |-> s.pos, buffer |-> s.buffer, it |-> s.it]

Init ==
    /\ src \in SeqsUpTo(Tok, MaxInput)
    /\ scanner = [pos |-> 0, buffer |-> <<>>, it |-> 0]
    /\ chk = NoChk
    /\ last = Idle
    /\ input = <<>>
    /\ text = NewTextScanner
    /\ FixUnused
    /\ LexUnused

WithTrace(s) == [pos |-> s.pos, buffer |-> s.buffer, it |-> s.it, trace |-> <<>>]

\* Run a parser against the scanner: p(s).
Apply(name, p) ==
    LET r == Run(p, WithTrace(scanner), <<>>)
    IN /\ last = Idle
       /\ chk.phase = 0
       /\ scanner' = Snapshot(r.s)
       /\ last' = [trace |-> r.s.trace, err |-> r.err, ok |-> r.ok, val |-> r.val,
                   op |-> name, p |-> p, pre |-> scanner]
       /\ UNCHANGED <<src, chk, tvars, fvars, lvars>>

ApplyMatch == \E accept \in {{"a"}, {"b"}, Tok} : Apply("Match", Match(accept))

ApplyOr ==
    \E i, j \in 1..Len(Parsers) : Apply("Or", Or(Parsers[i], Parsers[j]))

\* Alternatives a Choice is given.
MaxAlts == 3

ApplyChoice ==
    \E is \in SeqsUpTo(1..Len(Parsers), MaxAlts) :
        Apply("Choice", Choice("greeting", [i \in 1..Len(is) |-> Parsers[is[i]]]))

ApplyMany == \E i \in 1..Len(Consuming) : Apply("Many", Many(Consuming[i]))

\* A client calls Scanner.Read directly.
ScannerRead ==
    LET r == Read(WithTrace(scanner))
    IN /\ last = Idle
       /\ chk.phase = 2 => Len(chk.second) < Len(chk.first)
       /\ scanner' = Snapshot(r.s)
       /\ last' = [err |-> r.err, ok |-> r.ok, val |-> r.val, op |-> "Read",
                   pre |-> scanner]
       /\ chk' = IF ~r.ok THEN chk
                 ELSE IF chk.phase = 1 THEN [chk EXCEPT !.first = Append(@, r.val)]
                 ELSE IF chk.phase = 2 THEN [chk EXCEPT !.second = Append(@, r.val)]
                 ELSE chk
       /\ UNCHANGED <<src, tvars, fvars, lvars>>

\* A client calls Scanner.Unread directly.
ScannerUnread ==
    LET r == Unread(WithTrace(scanner))
    IN /\ last = Idle
       /\ chk.phase = 0
       /\ scanner' = Snapshot(r.s)
       /\ last' = [err |-> r.err, ok |-> r.ok, val |-> r.val, op |-> "Unread",
                   pre |-> scanner]
       /\ UNCHANGED <<src, chk, tvars, fvars, lvars>>

\* checkpoint := s.pos
Checkpoint ==
    /\ last = Idle
    /\ chk.phase = 0
    /\ chk' = [pos |-> scanner.pos, it |-> 0, phase |-> 1, first |-> <<>>,
               second |-> <<>>]
    /\ UNCHANGED <<src, scanner, last, tvars, fvars, lvars>>

\* s.pos = checkpoint
Restore ==
    /\ last = Idle
    /\ chk.phase = 1
    /\ scanner' = [scanner EXCEPT !.pos = chk.pos]
    /\ chk' = [chk EXCEPT !.phase = 2, !.it = scanner.it]
    /\ UNCHANGED <<src, last, tvars, fvars, lvars>>

\* The client has re-read everything it read before the restore.
Forget ==
    /\ last = Idle
    /\ chk.phase = 2
    /\ Len(chk.second) = Len(chk.first)
    /\ chk' = NoChk
    /\ UNCHANGED <<src, scanner, last, tvars, fvars, lvars>>

\* The call returns: the caller takes the result and goes on.
Resume ==
    /\ last # Idle
    /\ last' = Idle
    /\ UNCHANGED <<gvars, tvars, fvars, lvars>>

Next ==
    \/ Resume
    \/ ApplyMatch
    \/ ApplyOr
    \/ ApplyChoice
    \/ ApplyMany
    \/ ScannerRead
    \/ ScannerUnread
    \/ Checkpoint
    \/ Restore
    \/ Forget

Spec == Init /\ [][Next]_vars

(***************************************************************************)
(* Specification of the repetition and optional combinators                *)
(***************************************************************************)
\* Largest n given to Count.
MaxCount == 3

ApplyCount ==
    \E n \in 0..MaxCount, i \in 1..Len(Parsers) : Apply("Count", Count(n, Parsers[i]))

ApplyMany1 == \E i \in 1..Len(Consuming) : Apply("Many1", Many1(Consuming[i]))

ApplyManyTill ==
    \E i \in 1..Len(Consuming), j \in 1..Len(Parsers) :
        Apply("ManyTill", ManyTill(Consuming[i], Parsers[j]))

ApplySepBy ==
    \E i \in 1..Len(Consuming), j \in 1..Len(Parsers) :
        Apply("SepBy", SepBy(Consuming[i], Parsers[j]))

ApplySepBy1 ==
    \E i \in 1..Len(Consuming), j \in 1..Len(Parsers) :
        Apply("SepBy1", SepBy1(Consuming[i], Parsers[j]))

ApplyMaybe == \E i \in 1..Len(Parsers) : Apply("Maybe", Maybe(Parsers[i]))

ApplyLookAhead == \E i \in 1..Len(Parsers) : Apply("LookAhead", LookAhead(Parsers[i]))

ApplyOption == \E i \in 1..Len(Parsers) : Apply("Option", Option("fallback", Parsers[i]))

\* The functions given to Fix.
Grammars == {"nested", "list", "left"}

ApplyFix == \E f \in Grammars : Apply("Fix", Fix(f))

\* Parsers a List is given.
MaxList == 3

\* The sequencing combinators over the component parsers, by name.
Sequences ==
    LET P == {Parsers[i] : i \in 1..Len(Parsers)}
        tuple == [fn |-> "tuple"]
    IN {[p |-> Bind(p, [fn |-> "again"]), name |-> "Bind"] : p \in P}
       \cup {[p |-> DiscardLeft(p, q), name |-> "DiscardLeft"] : p \in P, q \in P}
       \cup {[p |-> DiscardRight(p, q), name |-> "DiscardRight"] : p \in P, q \in P}
       \cup {[p |-> Wrap(l, p, r), name |-> "Wrap"] : l \in P, p \in P, r \in P}
       \cup {[p |-> Lift2([fn |-> "prepend"], p, Many(q)), name |-> "Lift2"] :
                 p \in P, q \in {PA, PB}}
       \cup {[p |-> Both(p, q), name |-> "Both"] : p \in P, q \in P}
       \cup {[p |-> Lift3(tuple, p1, p2, p3), name |-> "Lift3"] :
                 p1 \in P, p2 \in P, p3 \in P}
       \cup {[p |-> Lift4(tuple, p1, p2, p3, p4), name |-> "Lift4"] :
                 p1 \in P, p2 \in P, p3 \in P, p4 \in P}
       \cup {[p |-> List([i \in 1..Len(is) |-> Parsers[is[i]]]), name |-> "List"] :
                 is \in SeqsUpTo(1..Len(Parsers), MaxList)}

ApplySequence == \E sq \in Sequences : Apply(sq.name, sq.p)

\* A call died of a stack overflow: the program is gone.
Overflowed == last.op = "Fix" /\ \E i \in 1..Len(last.trace) : last.trace[i].err = StackOverflow

KNext ==
    \/ Resume /\ ~Overflowed
    \/ ApplyFix
    \/ ApplyCount
    \/ ApplyMany1
    \/ ApplyManyTill
    \/ ApplySepBy
    \/ ApplySepBy1
    \/ ApplyMaybe
    \/ ApplyLookAhead
    \/ ApplyOption

SpecComb == Init /\ [][KNext]_vars

(***************************************************************************)
(* Specification of the sequencing combinators                             *)
(***************************************************************************)
QNext ==
    \/ Resume
    \/ ApplySequence

SpecSeq == Init /\ [][QNext]_vars

(***************************************************************************)
(* Many, one loop iteration at a time                                      *)
(***************************************************************************)
\* Values of out that are kept; the loop goes on beyond them.
MaxOut == 2

\* Many(p)(s) is called: var out []A
ManyCall ==
    /\ last = Idle
    /\ \E i \in 1..Len(Parsers) :
         last' = [op |-> "Many", p |-> Parsers[i], out |-> <<>>, checkpoint |-> 0,
                  pre |-> scanner, pc |-> "for"]
    /\ UNCHANGED <<gvars, tvars, fvars, lvars>>

\* checkpoint := s.pos
ManyCheckpoint ==
    /\ last.op = "Many"
    /\ last.pc = "for"
    /\ last' = [last EXCEPT !.pc = "p", !.checkpoint = scanner.pos]
    /\ UNCHANGED <<gvars, tvars, fvars, lvars>>

\* val, err := p(s), then either the return or the append. Of out, only the
\* first MaxOut values are kept.
ManyIterate ==
    /\ last.op = "Many"
    /\ last.pc = "p"
    /\ \E r \in {Run(last.p, WithTrace(scanner), <<1>>)} :
         IF ~r.ok
         THEN /\ scanner' = [Snapshot(r.s) EXCEPT !.pos = last.checkpoint]
              /\ last' = [last EXCEPT !.pc = "return"]
         ELSE /\ scanner' = Snapshot(r.s)
              /\ last' = [last EXCEPT !.pc = "for",
                                      !.out = IF Len(@) < MaxOut THEN Append(@, r.val)
                                              ELSE @]
    /\ UNCHANGED <<src, chk, tvars, fvars, lvars>>

\* return out, nil
ManyReturn ==
    /\ last.op = "Many"
    /\ last.pc = "return"
    /\ last' = Idle
    /\ UNCHANGED <<gvars, tvars, fvars, lvars>>

MNext ==
    \/ ManyCall
    \/ ManyCheckpoint
    \/ ManyIterate
    \/ ManyReturn

\* The caller's goroutine keeps running the loop.
SpecMany ==
    /\ Init
    /\ [][MNext]_vars
    /\ WF_vars(ManyCheckpoint)
    /\ WF_vars(ManyIterate)

(***************************************************************************)
(* Specification of the chain combinators over operand/operator items      *)
(***************************************************************************)
MaxChain == 5

OperandTok == {"x", "y"}

OpTok == {"+", "-"}

\* An operand: Lift(unit, Match(operand)).
Operand == Lift([fn |-> "unit"], Match(OperandTok))

\* An operator: Match(op) whose value names the function it stands for.
Operator == Match(OpTok)

CInit ==
    /\ src \in SeqsUpTo(OperandTok \cup OpTok, MaxChain)
    /\ scanner = [pos |-> 0, buffer |-> <<>>, it |-> 0]
    /\ chk = NoChk
    /\ last = Idle
    /\ input = <<>>
    /\ text = NewTextScanner
    /\ FixUnused
    /\ LexUnused

ApplyChainL1 == Apply("ChainL1", ChainL1(Operand, Operator))

ApplyChainR1 == Apply("ChainR1", ChainR1(Operand, Operator))

CNext ==
    \/ Resume
    \/ ScannerRead
    \/ ApplyChainL1
    \/ ApplyChainR1

SpecChain == CInit /\ [][CNext]_vars

(***************************************************************************)
(* avram.Scanner: the text Scanner                                         *)
(***************************************************************************)
MaxRunes == 2

\* The width history and the line counter grow without bound in the code
\* (neither is reset by a checkpoint restore); the model stops there.
MaxWidth == 3

MaxLine == 2

\* "a" and "nl" (newline) are one byte wide, "ee" is a two-byte rune.
Runes == {"a", "nl", "ee"}

RuneWidth(r) == IF r = "ee" THEN 2 ELSE 1

\* The UTF-8 bytes of a rune: byte k of rune r.
Encode(r) == [k \in 1..RuneWidth(r) |-> [r |-> r, k |-> k]]

RECURSIVE EncodeAll(_)
EncodeAll(rs) == IF rs = <<>> THEN <<>> ELSE Encode(Head(rs)) \o EncodeAll(Tail(rs))

\* utf8.DecodeRuneInString(input[pos:]) for 0 <= pos < len(input): a
\* continuation byte decodes to RuneError of width 1.
DecodeRune(pos) ==
    LET b == input[pos + 1]
    IN IF b.k = 1 THEN [r |-> b.r, w |-> RuneWidth(b.r)]
       ELSE [r |-> "RuneError", w |-> 1]

RuneBoundary(pos) ==
    \/ pos = Len(input)
    \/ pos >= 0 /\ pos < Len(input) /\ input[pos + 1].k = 1

Scanner_ReadRune(s) ==
    IF s.pos >= Len(input)
    THEN [s |-> [s EXCEPT !.width = <<>>], err |-> ErrEOF, ok |-> FALSE, val |-> "eof"]
    ELSE LET d == DecodeRune(s.pos)
         IN [s |-> [s EXCEPT !.width = Append(@, d.w),
                             !.pos = @ + d.w,
                             !.line = IF d.r = "nl" THEN @ + 1 ELSE @],
             err |-> NoErr, ok |-> TRUE, val |-> d.r]

Scanner_UnreadRune(s) ==
    IF Len(s.width) < 1
    THEN [s |-> s, err |-> <<"no runes to unread">>, ok |-> FALSE, val |-> Zero]
    ELSE [s |-> [s EXCEPT !.width = SubSeq(@, 1, Len(@) - 1),
                          !.pos = @ - s.width[Len(s.width)]],
          err |-> NoErr, ok |-> TRUE, val |-> Zero]

Scanner_MatchRune(accept, s) ==
    LET r == Scanner_ReadRune(s)
    IN IF ~r.ok THEN Failure(r.s, r.err)
       ELSE IF r.val \notin accept
            THEN LET u == Scanner_UnreadRune(r.s) IN Failure(u.s, <<"rule">> \o u.err)
            ELSE Success(r.s, r.val)

RECURSIVE MatchStringLoop_KeepsPosAtEOF(_, _, _, _)
MatchStringLoop_KeepsPosAtEOF(target, i, checkpoint, s) ==
    IF i > Len(target) THEN Success(s, target)
    ELSE LET r == Scanner_ReadRune(s)
         IN IF ~r.ok THEN Failure(r.s, r.err)
            ELSE IF target[i] # r.val
                 THEN Failure([r.s EXCEPT !.pos = checkpoint], <<"does not contain">>)
                 ELSE MatchStringLoop_KeepsPosAtEOF(target, i + 1, checkpoint, r.s)

RECURSIVE MatchStringLoop(_, _, _, _)
MatchStringLoop(target, i, checkpoint, s) ==
    IF i > Len(target) THEN Success(s, target)
    ELSE LET r == Scanner_ReadRune(s)
         IN IF ~r.ok THEN Failure([r.s EXCEPT !.pos = checkpoint], r.err)
            ELSE IF target[i] # r.val
                 THEN Failure([r.s EXCEPT !.pos = checkpoint], <<"does not contain">>)
                 ELSE MatchStringLoop(target, i + 1, checkpoint, r.s)

Scanner_MatchString(target, s) == MatchStringLoop(target, 1, s.pos, s)

\* The regexp engine is an injected capability: re.FindReaderIndex(s) is
\* modelled by what it does to the Scanner and what it returns.  It calls
\* s.ReadRune re.k times (stopping at end of input) and returns nil when
\* re.m0 < 0, and otherwise the byte offsets reached after re.m0 and re.m1
\* of those reads.
RECURSIVE ReadRunes(_, _, _)
ReadRunes(k, s, offs) ==
    IF k = 0 THEN [s |-> s, offs |-> offs]
    ELSE LET r == Scanner_ReadRune(s)
         IN IF ~r.ok THEN [s |-> r.s, offs |-> offs]
            ELSE ReadRunes(k - 1, r.s, Append(offs, r.s.pos))

Min(a, b) == IF a < b THEN a ELSE b

FindReaderIndex(re, s) ==
    LET rd == ReadRunes(re.k, s, <<s.pos>>)
        n == Len(rd.offs)
    IN [s |-> rd.s,
        m |-> IF re.m0 < 0 THEN <<>>
              ELSE <<rd.offs[Min(re.m0, n - 1) + 1] - s.pos,
                     rd.offs[Min(re.m1, n - 1) + 1] - s.pos>>]

Scanner_MatchRegexp(re, s) ==
    LET start == s.pos
        f == FindReaderIndex(re, s)
    IN IF f.m = <<>> THEN Failure([f.s EXCEPT !.pos = start], <<"does not match">>)
       ELSE IF f.m[1] # 0 THEN Failure([f.s EXCEPT !.pos = start], <<"does not match">>)
       ELSE Success([f.s EXCEPT !.pos = start + f.m[2]],
                    SubSeq(input, start + f.m[1] + 1, start + f.m[2]))

(***************************************************************************)
(* Parsers over the text Scanner                                           *)
(***************************************************************************)
AnyRune == [op |-> "AnyRune"]

\* Rune, Range, NotRune and Satisfy: s.MatchRune with a rule accepting `accept`.
Satisfy(accept) == [accept |-> accept, op |-> "Satisfy"]

MatchString(target) == [op |-> "MatchString", target |-> target]

MatchRegexp(re) == [op |-> "MatchRegexp", re |-> re]

Try(p) == [op |-> "Try", p |-> p]

avram_Or(p, q) == [q |-> q, op |-> "avram.Or", p |-> p]

avram_Choice(msg, ps) == [op |-> "avram.Choice", msg |-> msg, ps |-> ps]

TryChoice_WrapsNone(msg, ps) == avram_Choice(msg, ps)

\* for i := 0; i < len(ps)-1; i++ { ps[i] = Try(ps[i]) }; Choice(msg, ps...)
TryChoice(msg, ps) ==
    avram_Choice(msg, [i \in 1..Len(ps) |-> IF i < Len(ps) THEN Try(ps[i]) ELSE ps[i]])

\* chain(acc) of avram.ChainL1: the parser built for the accumulated value.
avram_chain(cp, acc) ==
    avram_Or(Try(Lift2([fn |-> "applyAcc", acc |-> acc], cp.opp,
                       Bind(cp.p, [fn |-> "avram.chain", cp |-> cp]))),
             Return(acc))

avram_ChainL1(p, opp) == Bind(p, [fn |-> "avram.chain", cp |-> [p |-> p, opp |-> opp]])

RECURSIVE TRun(_, _, _)

TRunDiscardLeft(p, s, path) ==
    LET r1 == TRun(p.p, s, Append(path, 1))
    IN IF ~r1.ok THEN Failure(r1.s, r1.err)
       ELSE TRun(p.q, r1.s, Append(path, 2))

TRunTry_NoRewind(p, s, path) ==
    LET r == TRun(p.p, s, Append(path, 1))
    IN IF ~r.ok THEN Failure(r.s, r.err) ELSE r

TRunTry(p, s, path) ==
    LET checkpoint == s.pos
        r == TRun(p.p, s, Append(path, 1))
    IN IF ~r.ok THEN Failure([r.s EXCEPT !.pos = checkpoint], r.err)
       ELSE r

TRunOr_AlwaysBacktrack(p, s, path) ==
    LET start == s.pos
        r1 == TRun(p.p, s, Append(path, 1))
    IN IF r1.ok THEN r1
       ELSE LET r2 == TRun(p.q, [r1.s EXCEPT !.pos = start], Append(path, 2))
            IN IF ~r2.ok THEN Failure(r2.s, r1.err \o r2.err)
               ELSE r2

TRunOr(p, s, path) ==
    LET start == s.pos
        r1 == TRun(p.p, s, Append(path, 1))
    IN IF r1.ok THEN r1
       ELSE IF start # r1.s.pos THEN Failure(r1.s, r1.err)
       ELSE LET r2 == TRun(p.q, r1.s, Append(path, 2))
            IN IF ~r2.ok THEN Failure(r2.s, r1.err \o r2.err)
               ELSE r2

TRunLift2(p, s, path) ==
    LET r1 == TRun(p.p1, s, Append(path, 1))
    IN IF ~r1.ok THEN Failure(r1.s, r1.err)
       ELSE LET r2 == TRun(p.p2, r1.s, Append(path, 2))
            IN IF ~r2.ok THEN Failure(r2.s, r2.err)
               ELSE Success(r2.s, Call2(p.f, r1.val, r2.val))

TRunBind(p, s, path) ==
    LET r == TRun(p.p, s, Append(path, 1))
    IN IF ~r.ok THEN Failure(r.s, r.err)
       ELSE TRun(avram_chain(p.f.cp, r.val), r.s, Append(path, 2))

\* for _, p := range ps { ... }, then the "expected msg" error
RECURSIVE TChoiceLoop(_, _, _, _, _, _)
TChoiceLoop(p, s, path, start, i, errs) ==
    IF i > Len(p.ps) THEN Failure(s, Expected(p.msg, errs))
    ELSE LET r == TRun(p.ps[i], s, Append(path, i))
         IN IF r.ok THEN r
            ELSE IF start # r.s.pos THEN Failure(r.s, Expected(p.msg, errs \o r.err))
            ELSE TChoiceLoop(p, r.s, path, start, i + 1, errs \o r.err)

TRunChoice(p, s, path) == TChoiceLoop(p, s, path, s.pos, 1, NoErr)

TRun(p, s, path) ==
    LET s0 == Log(s, "call", path, TRUE, Zero, NoErr)
        r == CASE p.op = "AnyRune" -> Scanner_ReadRune(s0)
               [] p.op = "Satisfy" -> Scanner_MatchRune(p.accept, s0)
               [] p.op = "MatchString" -> Scanner_MatchString(p.target, s0)
               [] p.op = "MatchRegexp" -> Scanner_MatchRegexp(p.re, s0)
               [] p.op = "Return" -> Success(s0, p.v)
               [] p.op = "Fail" -> Failure(s0, p.e)
               [] p.op = "DiscardLeft" -> TRunDiscardLeft(p, s0, path)
               [] p.op = "Try" -> TRunTry(p, s0, path)
               [] p.op = "avram.Or" -> TRunOr(p, s0, path)
               [] p.op = "avram.Choice" -> TRunChoice(p, s0, path)
               [] p.op = "Lift2" -> TRunLift2(p, s0, path)
               [] p.op = "Bind" -> TRunBind(p, s0, path)
    IN [r EXCEPT !.s = Log(r.s, "ret", path, r.ok, r.val, r.err)]

\* Reads a rune and then fails: the "p consumes input" parser of TestOr.
TReadFail == DiscardLeft(AnyRune, Fail(<<"p consumes input">>))

\* Reads a rune, then requires "a".
TAnyA == DiscardLeft(AnyRune, Satisfy({"a"}))

TParsers ==
    <<Satisfy({"a"}), TReadFail, Try(TReadFail), TAnyA, Return("r"), Fail(<<"fail">>)>>

\* re.k runes read; no match (m0 = -1) or a match over reads m0..m1.
Regexps ==
    {[k |-> k, m0 |-> m0, m1 |-> m1] :
        k \in 0..(MaxRunes + 1), m0 \in {-1, 0, 1}, m1 \in 0..MaxRunes}

(***************************************************************************)
(* Specification of the text Scanner and its combinators                   *)
(***************************************************************************)
TInit ==
    /\ \E rs \in SeqsUpTo(Runes, MaxRunes) : input = EncodeAll(rs)
    /\ text = NewTextScanner
    /\ last = Idle
    /\ src = <<>>
    /\ scanner = [pos |-> 0, buffer |-> <<>>, it |-> 0]
    /\ chk = NoChk
    /\ FixUnused
    /\ LexUnused

TWithTrace(s) == [pos |-> s.pos, trace |-> <<>>, width |-> s.width, line |-> s.line]

TSnapshot(s) == [pos |-> s.pos, width |-> s.width, line |-> s.line, panicked |-> FALSE]

\* input[s.pos:] panics when pos is negative, so no rune can be read there.
CanRead == ~text.panicked /\ text.pos >= 0

TApply(name, p, r) ==
    /\ last = Idle
    /\ CanRead
    /\ Len(r.s.width) <= MaxWidth
    /\ r.s.line <= MaxLine
    /\ text' = TSnapshot(r.s)
    /\ last' = [trace |-> r.s.trace, err |-> r.err, ok |-> r.ok, val |-> r.val, op |-> name,
                p |-> p, pre |-> text]
    /\ UNCHANGED <<gvars, input, fvars, lvars>>

TextReadRune == TApply("ReadRune", AnyRune, Scanner_ReadRune(TWithTrace(text)))

TextUnreadRune ==
    LET r == Scanner_UnreadRune(TWithTrace(text))
    IN /\ last = Idle
       /\ ~text.panicked
       /\ text' = TSnapshot(r.s)
       /\ last' = [err |-> r.err, ok |-> r.ok, val |-> r.val, op |-> "UnreadRune",
                   pre |-> text]
       /\ UNCHANGED <<gvars, input, fvars, lvars>>

TextMatchRune ==
    \E accept \in {{"a"}, {"nl", "ee"}} :
        TApply("MatchRune", Satisfy(accept), Scanner_MatchRune(accept, TWithTrace(text)))

TextMatchString ==
    \E target \in {<<"a">>, <<"a", "ee">>, <<"ee", "nl">>} :
        TApply("MatchString", MatchString(target),
               Scanner_MatchString(target, TWithTrace(text)))

TextMatchRegexp ==
    \E re \in Regexps :
        /\ re.m0 <= re.m1 /\ re.m1 <= re.k
        /\ TApply("MatchRegexp", MatchRegexp(re),
                  Scanner_MatchRegexp(re, TWithTrace(text)))

TextTry ==
    \E i \in 1..Len(TParsers) :
        TApply("Try", Try(TParsers[i]), TRun(Try(TParsers[i]), TWithTrace(text), <<>>))

TextOr ==
    \E i, j \in 1..Len(TParsers) :
        TApply("avram.Or", avram_Or(TParsers[i], TParsers[j]),
               TRun(avram_Or(TParsers[i], TParsers[j]), TWithTrace(text), <<>>))

TextTryChoice ==
    \E is \in SeqsUpTo(1..Len(TParsers), MaxAlts) :
        LET p == TryChoice("greeting", [i \in 1..Len(is) |-> TParsers[is[i]]])
        IN is # <<>> /\ TApply("TryChoice", p, TRun(p, TWithTrace(text), <<>>))

\* A read at a negative position: the slice expression panics.
TextPanic ==
    /\ last = Idle
    /\ ~text.panicked
    /\ text.pos < 0
    /\ text' = [text EXCEPT !.panicked = TRUE]
    /\ UNCHANGED <<gvars, input, last, fvars, lvars>>

TNext ==
    \/ Resume
    \/ TextReadRune
    \/ TextUnreadRune
    \/ TextMatchRune
    \/ TextMatchString
    \/ TextMatchRegexp
    \/ TextTry
    \/ TextOr
    \/ TextTryChoice
    \/ TextPanic

SpecText == TInit /\ [][TNext]_vars

(***************************************************************************)
(* Specification of avram.ChainL1 over the text Scanner                    *)
(***************************************************************************)
\* Runes of an expression. The width history, which failed attempts only
\* grow, is followed up to one entry more.
MaxExpr == 5

\* An operand, "a" or the two-byte "ee": its value is the matched string.
TOperand == avram_Or(MatchString(<<"a">>), MatchString(<<"ee">>))

\* The operator: a newline, whose value names the function it stands for.
TOperator == Satisfy({"nl"})

XInit ==
    /\ \E rs \in SeqsUpTo(Runes, MaxExpr) : input = EncodeAll(rs)
    /\ text = NewTextScanner
    /\ last = Idle
    /\ src = <<>>
    /\ scanner = [pos |-> 0, buffer |-> <<>>, it |-> 0]
    /\ chk = NoChk
    /\ FixUnused
    /\ LexUnused

TextChainL1 ==
    LET p == avram_ChainL1(TOperand, TOperator)
        r == TRun(p, TWithTrace(text), <<>>)
    IN /\ last = Idle
       /\ CanRead
       /\ Len(r.s.width) <= MaxExpr + 1
       /\ text' = TSnapshot(r.s)
       /\ last' = [trace |-> r.s.trace, err |-> r.err, ok |-> r.ok, val |-> r.val,
                   op |-> "avram.ChainL1", p |-> p, pre |-> text]
       /\ UNCHANGED <<gvars, input, fvars, lvars>>

XNext ==
    \/ Resume
    \/ TextReadRune
    \/ TextChainL1

SpecTextChain == XInit /\ [][XNext]_vars

(***************************************************************************)
(* Fix: one-time materialisation of a recursive parser                     *)
(***************************************************************************)
NumCallers == 2

\* Invocations a goroutine starts, and how deep p re-enters the receiver.
MaxCalls == 2

MaxDepth == 1

Callers == 1..NumCallers

\* Fix(f) as constructed: once unused, p unset; r is returned.
NewFix == [p |-> "nil", m |-> 0, done |-> 0, fcalls |-> 0, lost |-> FALSE,
           nilcalls |-> 0]

FInit ==
    /\ fix = NewFix
    /\ callers = [c \in Callers |-> [pc |-> "idle", calls |-> 0, depth |-> 0]]
    /\ src = <<>>
    /\ scanner = [pos |-> 0, buffer |-> <<>>, it |-> 0]
    /\ chk = NoChk
    /\ last = Idle
    /\ input = <<>>
    /\ text = NewTextScanner
    /\ LexUnused

FFrame == UNCHANGED <<gvars, last, tvars, lvars>>

Goto(c, pc) == callers' = [callers EXCEPT ![c].pc = pc]

\* A goroutine invokes r(s).
Invoke(c) ==
    /\ callers[c].pc = "idle"
    /\ callers[c].calls < MaxCalls
    /\ callers' = [callers EXCEPT ![c].pc = "Do", ![c].calls = @ + 1]
    /\ UNCHANGED fix
    /\ FFrame

\* once.Do: the fast path reads done.
OnceDo(c) ==
    /\ callers[c].pc = "Do"
    /\ Goto(c, IF fix.done = 0 THEN "Lock" ELSE "call")
    /\ UNCHANGED fix
    /\ FFrame

OnceLock_NoMutex(c) ==
    /\ callers[c].pc = "Lock"
    /\ fix' = [fix EXCEPT !.m = c]
    /\ Goto(c, "doSlow")
    /\ FFrame

\* doSlow: o.m.Lock() blocks while another goroutine holds the mutex.
OnceLock(c) ==
    /\ callers[c].pc = "Lock"
    /\ fix.m = 0
    /\ fix' = [fix EXCEPT !.m = c]
    /\ Goto(c, "doSlow")
    /\ FFrame

\* doSlow: done is read again under the mutex.
OnceDoSlow(c) ==
    /\ callers[c].pc = "doSlow"
    /\ Goto(c, IF fix.done = 0 THEN "f" ELSE "Unlock")
    /\ fix' = [fix EXCEPT !.lost = @ \/ fix.done # 0]
    /\ FFrame

\* p = f(r)
RunF(c) ==
    /\ callers[c].pc = "f"
    /\ fix' = [fix EXCEPT !.p = "built", !.fcalls = @ + 1]
    /\ Goto(c, "Store")
    /\ FFrame

\* defer o.done.Store(1)
OnceStore(c) ==
    /\ callers[c].pc = "Store"
    /\ fix' = [fix EXCEPT !.done = 1]
    /\ Goto(c, "Unlock")
    /\ FFrame

\* defer o.m.Unlock()
OnceUnlock(c) ==
    /\ callers[c].pc = "Unlock"
    /\ fix' = [fix EXCEPT !.m = 0]
    /\ Goto(c, "call")
    /\ FFrame

\* return p(s): p is called; calling an unset p is counted.
CallP(c) ==
    /\ callers[c].pc = "call"
    /\ fix' = [fix EXCEPT !.nilcalls = IF fix.p = "nil" THEN @ + 1 ELSE @]
    /\ Goto(c, "p")
    /\ FFrame

\* Inside p the grammar refers to itself: r is invoked again.
Reenter(c) ==
    /\ callers[c].pc = "p"
    /\ callers[c].depth < MaxDepth
    /\ callers' = [callers EXCEPT ![c].pc = "Do", ![c].depth = @ + 1]
    /\ UNCHANGED fix
    /\ FFrame

\* p returns.
ReturnP(c) ==
    /\ callers[c].pc = "p"
    /\ callers' = [callers EXCEPT ![c].pc = IF callers[c].depth = 0 THEN "idle" ELSE "p",
                                  ![c].depth = IF @ = 0 THEN 0 ELSE @ - 1]
    /\ UNCHANGED fix
    /\ FFrame

FNext ==
    \E c \in Callers :
        \/ Invoke(c)
        \/ OnceDo(c)
        \/ OnceLock(c)
        \/ OnceDoSlow(c)
        \/ RunF(c)
        \/ OnceStore(c)
        \/ OnceUnlock(c)
        \/ CallP(c)
        \/ Reenter(c)
        \/ ReturnP(c)

SpecFix == FInit /\ [][FNext]_vars

(***************************************************************************)
(* lex.Lexer: a producer goroutine feeding an unbuffered token channel     *)
(***************************************************************************)
\* Emit calls the state functions make before they stop.
MaxEmit == 2

\* Drop calls the state functions make before they stop.
MaxDrop == 2

TokTypes == {"word", "punct"}

\* NewLexer: the zero Lexer but for line; a nil width is told apart from an
\* empty one.
NewLexer == [pos |-> 0, err |-> "nil", start |-> 0, width |-> <<>>,
             line |-> 1, isnil |-> TRUE]

\* make(chan Token[T]): no buffer, a sender waits in the channel.
NewChan == [sending |-> <<>>, closed |-> FALSE]

LInit ==
    /\ \E rs \in SeqsUpTo(Runes, MaxRunes) : input = EncodeAll(rs)
    /\ lexer = NewLexer
    /\ tokens = NewChan
    /\ prod = [pc |-> "run", emitted |-> <<>>, ret |-> "none", spans |-> <<>>]
    /\ cons = [done |-> FALSE, received |-> <<>>]
    /\ text = NewTextScanner
    /\ last = Idle
    /\ src = <<>>
    /\ scanner = [pos |-> 0, buffer |-> <<>>, it |-> 0]
    /\ chk = NoChk
    /\ FixUnused

LFrame == UNCHANGED <<gvars, last, tvars, fvars>>

Lexer_Read(l) ==
    IF l.pos >= Len(input)
    THEN [r |-> "EOF", l |-> [l EXCEPT !.width = <<>>, !.isnil = TRUE]]
    ELSE LET d == DecodeRune(l.pos)
         IN [r |-> d.r,
             l |-> [l EXCEPT !.width = Append(@, d.w),
                             !.isnil = FALSE,
                             !.pos = @ + d.w,
                             !.line = IF d.r = "nl" THEN @ + 1 ELSE @]]

\* Backup indexes width[len-1]: an empty but non-nil history panics.
Lexer_BackupPanics(l) == ~l.isnil /\ l.width = <<>>

Lexer_Backup_KeepsLine(l) ==
    IF l.isnil THEN l
    ELSE [l EXCEPT !.width = SubSeq(@, 1, Len(@) - 1),
                   !.pos = @ - l.width[Len(l.width)]]

Lexer_Backup(l) ==
    IF l.isnil THEN l
    ELSE LET width == l.width[Len(l.width)]
             pos == l.pos - width
         IN [l EXCEPT !.width = SubSeq(@, 1, Len(@) - 1),
                      !.pos = pos,
                      !.line = IF width = 1 /\ input[pos + 1].r = "nl" /\ input[pos + 1].k = 1
                               THEN @ - 1 ELSE @]

Lexer_Peek(l) == Lexer_Backup(Lexer_Read(l).l)

\* input[start:pos]
Lexer_Body(l) == SubSeq(input, l.start + 1, l.pos)

\* The span [start, pos) an Emit publishes or a Drop discards.
Span(kind, l) == [kind |-> kind, from |-> l.start, to |-> l.pos]

Drops(spans) == Len(SelectSeq(spans, LAMBDA sp : sp.kind = "drop"))

Token(ttype, l) ==
    [Span |-> l.pos - l.start, Type |-> ttype, Body |-> Lexer_Body(l),
     Line |-> l.line, Start |-> l.start]

LexRead ==
    /\ prod.pc = "run"
    /\ lexer' = Lexer_Read(lexer).l
    /\ UNCHANGED <<tokens, prod, cons>>
    /\ LFrame

LexPeek ==
    /\ prod.pc = "run"
    /\ lexer' = Lexer_Peek(lexer)
    /\ UNCHANGED <<tokens, prod, cons>>
    /\ LFrame

LexBackup ==
    /\ prod.pc = "run"
    /\ IF Lexer_BackupPanics(lexer)
       THEN prod' = [prod EXCEPT !.pc = "panic"] /\ UNCHANGED lexer
       ELSE lexer' = Lexer_Backup(lexer) /\ UNCHANGED prod
    /\ UNCHANGED <<tokens, cons>>
    /\ LFrame

LexDrop_Publishes ==
    /\ prod.pc = "run"
    /\ Drops(prod.spans) < MaxDrop
    /\ lexer' = [lexer EXCEPT !.start = lexer.pos]
    /\ prod' = [prod EXCEPT !.spans = Append(@, Span("drop", lexer)),
                            !.emitted = Append(@, Token("word", lexer))]
    /\ UNCHANGED <<tokens, cons>>
    /\ LFrame

LexDrop ==
    /\ prod.pc = "run"
    /\ Drops(prod.spans) < MaxDrop
    /\ lexer' = [lexer EXCEPT !.start = lexer.pos]
    /\ prod' = [prod EXCEPT !.spans = Append(@, Span("drop", lexer))]
    /\ UNCHANGED <<tokens, cons>>
    /\ LFrame

LexEmit_NoWait(ttype) ==
    /\ prod.pc = "run"
    /\ Len(prod.emitted) < MaxEmit
    /\ IF lexer.start > lexer.pos
       THEN prod' = [prod EXCEPT !.pc = "panic"] /\ UNCHANGED tokens
       ELSE /\ tokens' = [tokens EXCEPT !.sending = <<Token(ttype, lexer)>>]
            /\ prod' = [prod EXCEPT !.pc = "sent",
                                    !.emitted = Append(@, Token(ttype, lexer)),
                                    !.spans = Append(@, Span("emit", lexer))]
    /\ UNCHANGED <<lexer, cons>>
    /\ LFrame

\* Emit up to its send: the token is built (input[start:pos] panics when
\* start > pos) and the goroutine waits in the channel for a receiver.
LexEmit(ttype) ==
    /\ prod.pc = "run"
    /\ Len(prod.emitted) < MaxEmit
    /\ IF lexer.start > lexer.pos
       THEN prod' = [prod EXCEPT !.pc = "panic"] /\ UNCHANGED tokens
       ELSE /\ tokens' = [tokens EXCEPT !.sending = <<Token(ttype, lexer)>>]
            /\ prod' = [prod EXCEPT !.pc = "send",
                                    !.emitted = Append(@, Token(ttype, lexer)),
                                    !.spans = Append(@, Span("emit", lexer))]
    /\ UNCHANGED <<lexer, cons>>
    /\ LFrame

\* Emit after its send: l.start = l.pos
LexEmitted ==
    /\ prod.pc = "sent"
    /\ lexer' = [lexer EXCEPT !.start = lexer.pos]
    /\ prod' = [prod EXCEPT !.pc = "run"]
    /\ UNCHANGED <<tokens, cons>>
    /\ LFrame

LexErrors == {"e1", "e2"}

LexReturn_NilFirst(next, err) ==
    /\ prod.pc = "run"
    /\ IF next = "nil"
       THEN /\ prod' = [prod EXCEPT !.pc = "exit", !.ret = err]
            /\ UNCHANGED lexer
       ELSE IF err # "nil"
            THEN /\ lexer' = [lexer EXCEPT !.err = err]
                 /\ prod' = [prod EXCEPT !.pc = "exit", !.ret = err]
            ELSE UNCHANGED <<lexer, prod>>
    /\ UNCHANGED <<tokens, cons>>
    /\ LFrame

\* The state function returns (next, err) to the loop of run: an error is
\* recorded and ends the loop whatever next is, a nil next ends it;
\* prod.ret remembers the error the last state function returned.
LexReturn(next, err) ==
    /\ prod.pc = "run"
    /\ IF err # "nil"
       THEN /\ lexer' = [lexer EXCEPT !.err = err]
            /\ prod' = [prod EXCEPT !.pc = "exit", !.ret = err]
       ELSE IF next = "nil"
            THEN /\ prod' = [prod EXCEPT !.pc = "exit", !.ret = "nil"]
                 /\ UNCHANGED lexer
            ELSE UNCHANGED <<lexer, prod>>
    /\ UNCHANGED <<tokens, cons>>
    /\ LFrame

LexClose_Skipped ==
    /\ prod.pc = "exit"
    /\ prod' = [prod EXCEPT !.pc = "done"]
    /\ UNCHANGED <<lexer, tokens, cons>>
    /\ LFrame

\* defer close(l.tokens): runs as the goroutine's function returns.
LexClose ==
    /\ prod.pc = "exit"
    /\ tokens' = [tokens EXCEPT !.closed = TRUE]
    /\ prod' = [prod EXCEPT !.pc = "done"]
    /\ UNCHANGED <<lexer, cons>>
    /\ LFrame

LexNext_NonBlocking ==
    /\ prod.pc # "panic"
    /\ \/ /\ tokens.sending # <<>>
          /\ prod.pc = "send"
          /\ cons' = [cons EXCEPT !.received = Append(@, tokens.sending[1])]
          /\ tokens' = [tokens EXCEPT !.sending = <<>>]
          /\ prod' = [prod EXCEPT !.pc = "sent"]
       \/ /\ cons' = [cons EXCEPT !.done = TRUE]
          /\ UNCHANGED <<tokens, prod>>
    /\ UNCHANGED lexer
    /\ LFrame

\* Next: the receive completes with a waiting sender's token, or with the
\* zero token and false once the channel is closed; otherwise it waits.
LexNext ==
    /\ prod.pc # "panic"
    /\ \/ /\ tokens.sending # <<>>
          /\ prod.pc = "send"
          /\ cons' = [cons EXCEPT !.received = Append(@, tokens.sending[1])]
          /\ tokens' = [tokens EXCEPT !.sending = <<>>]
          /\ prod' = [prod EXCEPT !.pc = "sent"]
       \/ /\ tokens.closed
          /\ cons' = [cons EXCEPT !.done = TRUE]
          /\ UNCHANGED <<tokens, prod>>
    /\ UNCHANGED lexer
    /\ LFrame

LNext ==
    \/ LexRead
    \/ LexPeek
    \/ LexBackup
    \/ LexDrop
    \/ \E ttype \in TokTypes : LexEmit(ttype)
    \/ LexEmitted
    \/ \E next \in {"fn", "nil"}, err \in {"nil"} \cup LexErrors : LexReturn(next, err)
    \/ LexClose
    \/ LexNext

SpecLex == LInit /\ [][LNext]_vars

\* The goroutine is scheduled until it has ended, and the consumer keeps
\* calling Next.
SpecLexLive == SpecLex /\ WF_vars(LexClose) /\ WF_vars(LexNext)

(***************************************************************************)
(* The SQL lexer: the state functions of package sql run by the Lexer      *)
(***************************************************************************)
\* Runes of an SQL text.
MaxSql == 3

\* A letter, a newline (white space), the double quote, the single quote,
\* the minus sign and the comma.
SqlRunes == {"a", "nl", "dq", "sq", "dash", "comma"}

SqlLetters == {"a"}

SqlSpace == {"nl"}

\* prod.fn is the state function the loop of run calls next, or the one
\* whose loop is being executed; prod.r is the rune a loop is about to test.
SqlInit ==
    /\ \E rs \in SeqsUpTo(SqlRunes, MaxSql) : input = EncodeAll(rs)
    /\ lexer = NewLexer
    /\ tokens = NewChan
    /\ prod = [r |-> "none", fn |-> "Lex", pc |-> "run", emitted |-> <<>>, ret |-> "none",
              spans |-> <<>>]
    /\ cons = [done |-> FALSE, received |-> <<>>]
    /\ text = NewTextScanner
    /\ last = Idle
    /\ src = <<>>
    /\ scanner = [pos |-> 0, buffer |-> <<>>, it |-> 0]
    /\ chk = NoChk
    /\ FixUnused

\* l.Emit(ttype) up to its send, followed by return Lex, nil.
SqlEmit(ttype, l) ==
    /\ lexer' = l
    /\ IF l.start > l.pos
       THEN prod' = [prod EXCEPT !.pc = "panic"] /\ UNCHANGED tokens
       ELSE /\ tokens' = [tokens EXCEPT !.sending = <<Token(ttype, l)>>]
            /\ prod' = [prod EXCEPT !.pc = "send",
                                    !.fn = "Lex",
                                    !.emitted = Append(@, Token(ttype, l)),
                                    !.spans = Append(@, Span("emit", l))]

\* return fn, nil, and the next iteration of a state function's own loop.
SqlGoto(fn, l) ==
    /\ lexer' = l
    /\ prod' = [prod EXCEPT !.fn = fn]
    /\ UNCHANGED tokens

\* return nil, err: the loop of run records an error and ends.
SqlExit(err, l) ==
    /\ lexer' = IF err = "nil" THEN l ELSE [l EXCEPT !.err = err]
    /\ prod' = [prod EXCEPT !.pc = "exit", !.ret = err]
    /\ UNCHANGED tokens

\* for class(l.Read()) { }: the lexer after the first rune not in class was
\* read; the end of input is in no class.
RECURSIVE ReadWhile(_, _)
ReadWhile(l, class) ==
    LET rd == Lexer_Read(l)
    IN IF rd.r \in class THEN ReadWhile(rd.l, class) ELSE rd.l

SqlLex ==
    /\ prod.pc = "run" /\ prod.fn = "Lex"
    /\ LET rd == Lexer_Read(lexer)
       IN CASE rd.r = "EOF" -> SqlExit("nil", rd.l)
            [] rd.r = "comma" -> SqlEmit("COMMA", rd.l)
            [] rd.r = "sq" -> SqlGoto("lexString", rd.l)
            [] rd.r = "dq" -> SqlGoto("lexQuotedName", rd.l)
            [] rd.r = "dash" ->
                 IF Lexer_Read(rd.l).r = "dash"
                 THEN SqlGoto("lexLineComment", Lexer_Peek(rd.l))
                 ELSE SqlEmit("SUB", Lexer_Peek(rd.l))
            [] rd.r \in SqlSpace -> SqlGoto("lexWhitespace", rd.l)
            [] rd.r \in SqlLetters -> SqlGoto("lexLiteral", rd.l)
            [] OTHER -> SqlExit("unexpected value", rd.l)
    /\ UNCHANGED cons
    /\ LFrame

\* One iteration of the loop of lexString.
SqlString ==
    /\ prod.pc = "run" /\ prod.fn = "lexString"
    /\ LET rd == Lexer_Read(lexer)
       IN IF rd.r = "EOF" THEN SqlExit("unterminated string", rd.l)
          ELSE IF rd.r = "sq"
               THEN IF Lexer_Read(rd.l).r = "sq"
                    THEN SqlGoto("lexString", Lexer_Read(Lexer_Peek(rd.l)).l)
                    ELSE SqlEmit("STRING", Lexer_Peek(rd.l))
               ELSE SqlGoto("lexString", rd.l)
    /\ UNCHANGED cons
    /\ LFrame

\* for l.Read() != '"' { }: the call of Read, and then the test of the rune
\* it returned, which goes back to Read or leaves the loop for Emit.
SqlQuotedName ==
    /\ prod.fn = "lexQuotedName"
    /\ \/ /\ prod.pc = "run"
          /\ lexer' = Lexer_Read(lexer).l
          /\ prod' = [prod EXCEPT !.pc = "test", !.r = Lexer_Read(lexer).r]
          /\ UNCHANGED tokens
       \/ /\ prod.pc = "test"
          /\ IF prod.r # "dq"
             THEN prod' = [prod EXCEPT !.pc = "run"] /\ UNCHANGED <<lexer, tokens>>
             ELSE SqlEmit("QUOTED_NAME", lexer)
    /\ UNCHANGED cons
    /\ LFrame

\* With these letters the body is never a keyword: the token is a NAME.
SqlLiteral ==
    /\ prod.pc = "run" /\ prod.fn = "lexLiteral"
    /\ LET l == ReadWhile(lexer, SqlLetters)
       IN IF Lexer_BackupPanics(l)
          THEN prod' = [prod EXCEPT !.pc = "panic"] /\ UNCHANGED <<lexer, tokens>>
          ELSE SqlEmit("NAME", Lexer_Backup(l))
    /\ UNCHANGED cons
    /\ LFrame

SqlWhitespace ==
    /\ prod.pc = "run" /\ prod.fn = "lexWhitespace"
    /\ LET l == ReadWhile(lexer, SqlSpace)
       IN IF Lexer_BackupPanics(l)
          THEN prod' = [prod EXCEPT !.pc = "panic"] /\ UNCHANGED <<lexer, tokens>>
          ELSE SqlEmit("WHITESPACE", Lexer_Backup(l))
    /\ UNCHANGED cons
    /\ LFrame

\* for l.Read() != '\n' { }: the call of Read, and then the test.
SqlLineComment ==
    /\ prod.fn = "lexLineComment"
    /\ \/ /\ prod.pc = "run"
          /\ lexer' = Lexer_Read(lexer).l
          /\ prod' = [prod EXCEPT !.pc = "test", !.r = Lexer_Read(lexer).r]
          /\ UNCHANGED tokens
       \/ /\ prod.pc = "test"
          /\ IF prod.r # "nl"
             THEN prod' = [prod EXCEPT !.pc = "run"] /\ UNCHANGED <<lexer, tokens>>
             ELSE SqlEmit("COMMENT", lexer)
    /\ UNCHANGED cons
    /\ LFrame

\* The steps of the lexer goroutine.
SqlRun ==
    \/ SqlLex
    \/ SqlString
    \/ SqlQuotedName
    \/ SqlLiteral
    \/ SqlWhitespace
    \/ SqlLineComment
    \/ LexEmitted
    \/ LexClose

SqlNext ==
    \/ SqlRun
    \/ LexNext

\* The goroutine is scheduled whenever it can take a step, and the consumer
\* keeps calling Next.
SpecSql == SqlInit /\ [][SqlNext]_vars /\ WF_vars(SqlRun) /\ WF_vars(LexNext)

(***************************************************************************)
(* Claims about the generic Scanner and the avramx combinators             *)
(***************************************************************************)
PreState == WithTrace(last.pre)

\* C1: avramx.Or(p, q) returns p's value without running q when p succeeds;
\* when p fails, whether or not it consumed, q is run from the position Or
\* was entered at, and Or then succeeds, returns and consumes exactly as q
\* would have from that position had p never run.
C1_OrBacktracks ==
    last.op = "Or" =>
        LET c1 == Calls(last.trace, <<1>>)
            r1 == Rets(last.trace, <<1>>)
            c2 == Calls(last.trace, <<2>>)
            alone == Run(last.p.q, PreState, <<2>>)
        IN /\ Len(c1) = 1 /\ Len(r1) = 1
           /\ c1[1].pos = last.pre.pos
           /\ r1[1].ok =>
                /\ last.ok
                /\ last.val = r1[1].val
                /\ c2 = <<>>
                /\ scanner.pos = r1[1].pos
           /\ ~r1[1].ok =>
                /\ Len(c2) = 1
                /\ c2[1].pos = last.pre.pos
                /\ last.ok = alone.ok
                /\ scanner.pos = alone.s.pos
                /\ alone.ok => last.val = alone.val

\* p consumed an item and failed, and q then succeeded consuming input.
C1_Witness ==
    /\ last.op = "Or"
    /\ ~Rets(last.trace, <<1>>)[1].ok
    /\ Rets(last.trace, <<1>>)[1].pos > last.pre.pos
    /\ last.ok
    /\ scanner.pos > last.pre.pos

\* C3: Many(p) never fails; its value is, in order, the values of the
\* consecutive successful applications of p, and the cursor is left exactly
\* after the last successful one: what the final, failing application
\* consumed is undone.
C3_ManyNeverFails ==
    last.op = "Many" =>
        LET c == Calls(last.trace, <<1>>)
            r == Rets(last.trace, <<1>>)
            n == Len(r)
        IN /\ last.ok
           /\ n >= 1 /\ Len(c) = n
           /\ ~r[n].ok
           /\ \A i \in 1..(n - 1) : r[i].ok
           /\ c[1].pos = last.pre.pos
           /\ \A i \in 2..n : c[i].pos = r[i - 1].pos
           /\ last.val = [i \in 1..(n - 1) |-> r[i].val]
           /\ scanner.pos = c[n].pos
           /\ scanner.pos = IF n = 1 THEN last.pre.pos ELSE r[n - 1].pos

\* p succeeded at least once and its failing application consumed input.
C3_Witness ==
    /\ last.op = "Many"
    /\ Len(last.val) >= 1
    /\ LET c == Calls(last.trace, <<1>>)
           r == Rets(last.trace, <<1>>)
       IN r[Len(r)].pos > c[Len(c)].pos

\* C4: after pos is reset to a saved value, the Reads that follow return the
\* items the Reads since the save returned, in the same order, and none of
\* them pulls from the iterator.
C4_RestoreReplays ==
    chk.phase = 2 =>
        /\ IsPrefix(chk.second, chk.first)
        /\ scanner.it = chk.it
        /\ scanner.pos = chk.pos + Len(chk.second)

\* Two items were read after the save and both were read again.
C4_Witness ==
    /\ chk.phase = 2
    /\ Len(chk.first) >= 2
    /\ chk.second = chk.first

\* C7: Match(rule) leaves the position unchanged when the rule rejects the
\* item read and when the source is exhausted, and advances it by exactly
\* one, returning the item, when the rule accepts.
C7_MatchNetZero ==
    last.op = "Match" =>
        /\ (~last.ok /\ last.err = <<"rule">>) => scanner.pos = last.pre.pos
        /\ (~last.ok /\ last.err = ErrEOF) => scanner.pos = last.pre.pos
        /\ last.ok => /\ scanner.pos = last.pre.pos + 1
                      /\ last.val = scanner.buffer[scanner.pos]
                      /\ last.val \in last.p.accept

(***************************************************************************)
(* Claims about the text Scanner and the avram combinators                 *)
(***************************************************************************)
\* C2: avram.Or(p, q): when p fails having moved the position, q is never
\* invoked, Or fails with p's error alone and the position stays where p
\* left it; when p fails with the position unchanged, q is run from that
\* position; with p wrapped in Try, q runs after any failure of p.
C2_OrCommits ==
    last.op = "avram.Or" =>
        LET r1 == Rets(last.trace, <<1>>)[1]
            c2 == Calls(last.trace, <<2>>)
            r2 == Rets(last.trace, <<2>>)
        IN /\ r1.ok => c2 = <<>> /\ last.ok /\ last.val = r1.val
           /\ (~r1.ok /\ r1.pos # last.pre.pos) =>
                /\ c2 = <<>>
                /\ ~last.ok
                /\ last.err = r1.err
                /\ text.pos = r1.pos
           /\ (~r1.ok /\ r1.pos = last.pre.pos) =>
                /\ Len(c2) = 1
                /\ c2[1].pos = last.pre.pos
                /\ last.ok = r2[1].ok
                /\ text.pos = r2[1].pos
           /\ (~r1.ok /\ last.p.p.op = "Try") => Len(c2) = 1

\* p read a rune and failed, so q was not run.
C2_Witness ==
    /\ last.op = "avram.Or"
    /\ ~Rets(last.trace, <<1>>)[1].ok
    /\ Rets(last.trace, <<1>>)[1].pos > last.pre.pos
    /\ Calls(last.trace, <<2>>) = <<>>
    /\ text.pos > last.pre.pos

\* C5: in every reachable state of the text Scanner 0 <= pos <= len(input)
\* and pos is on a rune boundary.
C5_PosOnRuneBoundary ==
    /\ 0 <= text.pos
    /\ text.pos <= Len(input)
    /\ RuneBoundary(text.pos)

\* C6: when Try(p) fails, the Scanner is as it was when Try was entered:
\* pos, the width history and the line counter have their entry values.
C6_RestoreIdentity ==
    (last.op = "Try" /\ ~last.ok) =>
        /\ text.pos = last.pre.pos
        /\ text.width = last.pre.width
        /\ text.line = last.pre.line

\* C17: when p fails, Try(p) returns p's error with the position reset to
\* the one Try was entered at; when p succeeds, Try(p) returns p's value and
\* keeps the position p reached.
C17_TryRewinds ==
    last.op = "Try" =>
        LET r == Rets(last.trace, <<1>>)
        IN /\ Len(r) = 1
           /\ Calls(last.trace, <<1>>)[1].pos = last.pre.pos
           /\ ~r[1].ok =>
                /\ ~last.ok
                /\ last.err = r[1].err
                /\ text.pos = last.pre.pos
           /\ r[1].ok =>
                /\ last.ok
                /\ last.val = r[1].val
                /\ text.pos = r[1].pos

\* p read a rune and then failed: Try put the position back.
C17_Witness ==
    /\ last.op = "Try"
    /\ ~last.ok
    /\ Rets(last.trace, <<1>>)[1].pos > last.pre.pos
    /\ last.pre.pos > 0

(***************************************************************************)
(* Claims about the chain combinators                                      *)
(***************************************************************************)
\* The number of (operator, operand) pairs that follow the item at index i.
RECURSIVE PairsAfter(_)
PairsAfter(i) ==
    IF i + 2 <= Len(src) /\ src[i + 1] \in OpTok /\ src[i + 2] \in OperandTok
    THEN 1 + PairsAfter(i + 2)
    ELSE 0

\* ((a (+) b) (+) c): the left fold of k pairs after the operand at index b.
RECURSIVE FoldLeft(_, _)
FoldLeft(b, k) ==
    IF k = 0 THEN <<src[b]>>
    ELSE CallOp(src[b + 2 * k - 1], FoldLeft(b, k - 1), <<src[b + 2 * k]>>)

\* (a (+) (b (+) c)): the right fold of k pairs after the operand at index b.
RECURSIVE FoldRight(_, _)
FoldRight(b, k) ==
    IF k = 0 THEN <<src[b]>>
    ELSE CallOp(src[b + 1], <<src[b]>>, FoldRight(b + 2, k - 1))

\* C9: on operand (op operand)* ChainL1 returns the left fold of the operator
\* functions over the operands and ChainR1 the right fold, each consuming
\* the operand and every pair.
C9_ChainFolds ==
    (last.op \in {"ChainL1", "ChainR1"}
        /\ last.pre.pos < Len(src) /\ src[last.pre.pos + 1] \in OperandTok) =>
        LET b == last.pre.pos + 1
            n == PairsAfter(b)
        IN /\ last.ok
           /\ scanner.pos = last.pre.pos + 1 + 2 * n
           /\ last.op = "ChainL1" => last.val = FoldLeft(b, n)
           /\ last.op = "ChainR1" => last.val = FoldRight(b, n)

\* a op b op c was chained to the left.
C9_Witness ==
    /\ last.op = "ChainL1"
    /\ last.ok
    /\ last.pre.pos = 0
    /\ scanner.pos = 5
    /\ last.val = <<"(", "(", "x", "-", "y", ")", "+", "x", ")">>

(***************************************************************************)
(* Claims about Fix                                                        *)
(***************************************************************************)
\* C8: f is not run before the first invocation of the parser Fix returned,
\* is run at most once whatever the number of invocations and callers, and
\* every invocation, however it races with the first, calls the parser f
\* returned: p is never called unset.
C8_FixOnce ==
    /\ fix.fcalls <= 1
    /\ (\A c \in Callers : callers[c].calls = 0) => (fix.fcalls = 0 /\ fix.p = "nil")
    /\ \A c \in Callers :
          callers[c].pc \in {"call", "p"} => (fix.fcalls = 1 /\ fix.p = "built")
    /\ \A c \in Callers :
          (callers[c].pc = "idle" /\ callers[c].calls > 0) => fix.fcalls = 1
    /\ fix.nilcalls = 0

\* Two goroutines are inside p, one of them having lost the race for f.
C8_Witness ==
    /\ fix.lost
    /\ fix.fcalls = 1
    /\ \E c, d \in Callers : c # d /\ callers[c].pc = "p" /\ callers[d].pc = "p"

(***************************************************************************)
(* Claims about the Lexer                                                  *)
(***************************************************************************)
\* C10: the tokens Next has returned are the tokens Emit was called with, in
\* emission order: at most the token of an Emit still waiting in its send is
\* outstanding, and once Emit has returned, the goroutine has ended or Next
\* has returned false, every emitted token has been returned exactly once.
C10_TokensInOrder ==
    /\ IsPrefix(cons.received, prod.emitted)
    /\ prod.pc = "send" => prod.emitted = Append(cons.received, tokens.sending[1])
    /\ prod.pc # "send" => cons.received = prod.emitted
    /\ cons.done => (tokens.closed /\ cons.received = prod.emitted)

\* Two different non-empty tokens were emitted and received before Next
\* returned false.
C10_Witness ==
    /\ cons.done
    /\ Len(cons.received) = 2
    /\ cons.received[1] # cons.received[2]
    /\ cons.received[1].Body # <<>>
    /\ cons.received[2].Body # <<>>

\* C11: the producer is never more than one token ahead of the consumer:
\* while an Emit waits in its send the producer does nothing else, and it
\* goes on only by the consumer taking that token; Next completes only when
\* a token is waiting or the channel is closed.
C11_Backpressure ==
    /\ [](Len(prod.emitted) - Len(cons.received) <= 1)
    /\ [][prod.pc = "send" =>
            /\ lexer' = lexer
            /\ prod'.emitted = prod.emitted
            /\ prod' # prod => cons'.received = Append(cons.received, tokens.sending[1])]_vars
    /\ [][cons' # cons => (tokens.sending # <<>> \/ tokens.closed)]_vars

\* The producer waits in its second Emit; the consumer has taken one token.
C11_Witness ==
    /\ prod.pc = "send"
    /\ Len(prod.emitted) = 2
    /\ Len(cons.received) = 1

\* C12: once the loop of run has exited, by a nil state or by an error, the
\* channel gets closed; a consumer that keeps calling Next then gets
\* (zero token, false), and from then on receives no token.
C12_ClosedOnExit ==
    /\ [](prod.pc = "done" => tokens.closed)
    /\ (prod.pc = "exit") ~> cons.done
    /\ [][cons.done => cons' = cons]_vars

\* The loop ended on an error after one token and Next has returned false.
C12_Witness ==
    /\ cons.done
    /\ tokens.closed
    /\ prod.ret \in LexErrors
    /\ Len(cons.received) = 1

\* C13: when a state function returns an error, or the nil state, the loop
\* exits at once: no state function touches the lexer and no token is
\* emitted afterwards; once Next has returned false, Err() is the error that
\* state function returned, and nil when it returned the nil state.
C13_FatalError ==
    /\ [](cons.done => lexer.err = prod.ret)
    /\ [][prod.ret # "none" =>
            /\ lexer' = lexer
            /\ prod'.emitted = prod.emitted
            /\ prod'.ret = prod.ret]_vars
    /\ [][prod'.ret # prod.ret => prod'.pc = "exit"]_vars

\* A state function returned error e2 together with a next state, after two
\* tokens; Next has returned false.
C13_Witness ==
    /\ cons.done
    /\ prod.ret = "e2"
    /\ lexer.err = "e2"
    /\ Len(cons.received) = 2

Contiguous(spans) ==
    \A i \in 1..Len(spans) :
        /\ spans[i].from <= spans[i].to
        /\ spans[i].from = (IF i = 1 THEN 0 ELSE spans[i - 1].to)

RECURSIVE Concat(_)
Concat(spans) ==
    IF spans = <<>> THEN <<>>
    ELSE SubSeq(input, Head(spans).from + 1, Head(spans).to) \o Concat(Tail(spans))

\* C14: the spans published by Emit and discarded by Drop are, in order,
\* contiguous and non-overlapping, and once the input has been read to its
\* end and everything read was emitted or dropped, their concatenation is
\* the input.
C14_Reconstruction ==
    /\ Contiguous(prod.spans)
    /\ (lexer.pos = Len(input) /\ lexer.start = lexer.pos /\ prod.pc # "panic")
          => Concat(prod.spans) = input

EmitSpans(spans) == SelectSeq(spans, LAMBDA sp : sp.kind = "emit")

\* C15: every delivered token has Body = input[Start : Start+Span], with
\* Start the start marker and Start+Span the pos of its Emit; when Emit
\* returns and when Drop returns the start marker equals pos; Drop changes
\* nothing else and publishes no token.
C15_TokenFields ==
    /\ [](\A i \in 1..Len(cons.received) :
            LET tok == cons.received[i]
                sp == EmitSpans(prod.spans)[i]
            IN /\ tok.Span >= 0
               /\ tok.Body = SubSeq(input, tok.Start + 1, tok.Start + tok.Span)
               /\ tok.Start = sp.from
               /\ tok.Start + tok.Span = sp.to)
    /\ [][(prod.pc = "sent" /\ prod'.pc = "run") => lexer'.start = lexer'.pos]_vars
    /\ [][Drops(prod'.spans) > Drops(prod.spans) =>
            /\ lexer'.start = lexer'.pos
            /\ lexer'.pos = lexer.pos
            /\ prod'.emitted = prod.emitted
            /\ tokens' = tokens
            /\ cons' = cons]_vars

\* A token that starts after a dropped span has been delivered.
C15_Witness ==
    /\ Len(cons.received) >= 1
    /\ cons.received[1].Start > 0
    /\ cons.received[1].Span > 0
    /\ Drops(prod.spans) >= 1
    /\ prod.spans[1].kind = "drop"

(***************************************************************************)
(* Further claims about the avramx combinators and the generic Scanner     *)
(***************************************************************************)
\* The alternatives of the last Choice that were called, in call order.
AltsCalled ==
    SelectSeq(last.trace, LAMBDA e : e.ev = "call" /\ Len(e.path) = 1)

RECURSIVE AltErrors(_, _)
AltErrors(trace, n) ==
    IF n = 0 THEN NoErr ELSE AltErrors(trace, n - 1) \o Rets(trace, <<n>>)[1].err

\* C16: avramx.Choice runs its alternatives in order, each from the position
\* Choice was entered at, and returns the value of the first that succeeds
\* without running the later ones; it fails only when every alternative
\* failed, with "expected msg" wrapping every alternative's error in order
\* and the position back at the entry position.
C16_ChoiceInOrder ==
    last.op = "Choice" =>
        LET ps == last.p.ps
            called == AltsCalled
            m == Len(called)
        IN /\ m <= Len(ps)
           /\ \A i \in 1..m :
                /\ called[i].path = <<i>>
                /\ called[i].pos = last.pre.pos
                /\ Len(Rets(last.trace, <<i>>)) = 1
                /\ i < m => ~Rets(last.trace, <<i>>)[1].ok
           /\ last.ok =>
                /\ m >= 1
                /\ Rets(last.trace, <<m>>)[1].ok
                /\ last.val = Rets(last.trace, <<m>>)[1].val
                /\ scanner.pos = Rets(last.trace, <<m>>)[1].pos
           /\ ~last.ok =>
                /\ m = Len(ps)
                /\ \A i \in 1..m : ~Rets(last.trace, <<i>>)[1].ok
                /\ last.err = Expected(last.p.msg, AltErrors(last.trace, m))
                /\ scanner.pos = last.pre.pos

\* The first two alternatives consumed input and failed, the third succeeded
\* from the entry position.
C16_Witness ==
    /\ last.op = "Choice"
    /\ Len(last.p.ps) = 3
    /\ Len(AltsCalled) = 3
    /\ last.ok
    /\ Rets(last.trace, <<1>>)[1].pos > last.pre.pos
    /\ Rets(last.trace, <<2>>)[1].pos > last.pre.pos
    /\ scanner.pos > last.pre.pos

\* k Reads in a row: the scanner after them, k counting down to the reads
\* that failed.
RECURSIVE ReadK(_, _)
ReadK(s, k) ==
    IF k = 0 THEN [s |-> s, left |-> 0]
    ELSE LET r == Read(s) IN IF r.ok THEN ReadK(r.s, k - 1) ELSE [s |-> s, left |-> k]

RECURSIVE UnreadK(_, _)
UnreadK(s, k) ==
    IF k = 0 THEN [s |-> s, left |-> 0]
    ELSE LET r == Unread(s) IN IF r.ok THEN UnreadK(r.s, k - 1) ELSE [s |-> s, left |-> k]

\* C18: after a successful Read, Unread succeeds and the next Read returns
\* the same element; k Reads followed by k Unreads bring the position back;
\* Unread at position 0 returns an error and changes nothing.
C18_UnreadUndoesRead ==
    /\ last.op = "Unread" =>
         IF last.pre.pos = 0
         THEN ~last.ok /\ last.err # NoErr /\ scanner = last.pre
         ELSE last.ok /\ scanner = [last.pre EXCEPT !.pos = @ - 1]
    /\ LET s == WithTrace(scanner)
           r == Read(s)
       IN r.ok =>
            LET u == Unread(r.s)
                again == Read(u.s)
            IN /\ u.ok
               /\ u.s.pos = s.pos
               /\ again.ok
               /\ again.val = r.val
               /\ again.s = r.s
    /\ \A k \in 1..MaxInput :
         LET s == WithTrace(scanner)
             rk == ReadK(s, k)
         IN rk.left = 0 =>
              LET uk == UnreadK(rk.s, k)
              IN uk.left = 0 /\ uk.s.pos = s.pos

\* An Unread went back over an item that a Read had pulled, with another
\* item buffered after it.
C18_Witness ==
    /\ last.op = "Unread"
    /\ last.ok
    /\ scanner.pos >= 1
    /\ Len(scanner.buffer) >= scanner.pos + 2

\* C19: 0 <= pos <= len(buffer) and buffer is the prefix of the source pulled
\* so far, each element pulled once; Read pulls from the iterator only when
\* pos = len(buffer), returns the source's elements in source order, and
\* returns io.EOF exactly when pos = len(buffer) and the iterator is
\* exhausted, changing nothing.
C19_ReadInOrder ==
    /\ 0 <= scanner.pos /\ scanner.pos <= Len(scanner.buffer)
    /\ scanner.it = Len(scanner.buffer)
    /\ scanner.buffer = SubSeq(src, 1, scanner.it)
    /\ last.op = "Read" =>
         LET pre == last.pre
             atEnd == pre.pos = Len(pre.buffer)
         IN /\ scanner.it = (IF atEnd /\ pre.it < Len(src) THEN pre.it + 1 ELSE pre.it)
            /\ ~last.ok <=> (atEnd /\ pre.it = Len(src))
            /\ ~last.ok => (last.err = ErrEOF /\ scanner = pre)
            /\ last.ok => (last.val = src[pre.pos + 1] /\ scanner.pos = pre.pos + 1)

\* A Read was served from the buffer, after a position reset, without
\* pulling from the iterator.
C19_Witness ==
    /\ last.op = "Read"
    /\ last.ok
    /\ last.pre.pos < Len(last.pre.buffer)
    /\ scanner.it = last.pre.it
    /\ scanner.pos >= 2

\* C20: Many(p) returns, for every parser p and every input, also for a p
\* that succeeds without consuming.
C20_ManyTerminates ==
    (last.op = "Many" /\ last.pc = "for") ~> (last.op = "Many" /\ last.pc = "return")

(***************************************************************************)
(* Claims about the repetition and optional combinators                    *)
(***************************************************************************)
\* C22: Many1(p) succeeds exactly when the first application of p succeeds,
\* and then returns the first value followed by what Many(p) returns from
\* the position after that application, and ends where that Many(p) ends.
C22_Many1 ==
    last.op = "Many1" =>
        LET c == Calls(last.trace, <<1>>)
            r == Rets(last.trace, <<1>>)
            p == last.p.p1
            rest == Run(Many(p), WithTrace([scanner EXCEPT !.pos = r[1].pos]), <<>>)
        IN /\ Len(c) = 1 /\ Len(r) = 1
           /\ c[1].pos = last.pre.pos
           /\ last.ok = r[1].ok
           /\ ~r[1].ok => last.err = r[1].err
           /\ r[1].ok =>
                /\ last.val = <<r[1].val>> \o rest.val
                /\ scanner.pos = rest.s.pos

\* Many1 returned three values.
C22_Witness ==
    /\ last.op = "Many1"
    /\ last.ok
    /\ Len(last.val) = 3

\* C23: Count(n, p) applies p n times when every application succeeds and
\* returns the n values in order; it stops at the first failing application,
\* returns its error and leaves the cursor where that application left it;
\* Count(0, p) succeeds without applying p.
C23_Count ==
    last.op = "Count" =>
        LET c == Calls(last.trace, <<1>>)
            r == Rets(last.trace, <<1>>)
            k == Len(r)
        IN /\ Len(c) = k
           /\ k <= last.p.n
           /\ \A i \in 1..k : c[i].pos = IF i = 1 THEN last.pre.pos ELSE r[i - 1].pos
           /\ \A i \in 1..(k - 1) : r[i].ok
           /\ scanner.pos = IF k = 0 THEN last.pre.pos ELSE r[k].pos
           /\ last.ok = (k = last.p.n /\ (k > 0 => r[k].ok))
           /\ last.ok => last.val = [i \in 1..k |-> r[i].val]
           /\ ~last.ok => last.err = r[k].err
           /\ last.p.n = 0 => k = 0 /\ last.ok

\* Two applications succeeded and the third consumed an item and failed.
C23_Witness ==
    /\ last.op = "Count"
    /\ ~last.ok
    /\ Len(Rets(last.trace, <<1>>)) = 3
    /\ scanner.pos > Rets(last.trace, <<1>>)[2].pos

\* C24: SepBy(sep, p) never fails: it returns the values of p separated by
\* sep, or the empty list with the cursor at the entry position when the
\* first p fails, whatever that p consumed; SepBy1(sep, p) fails exactly
\* when the first p fails.
C24_SepBy ==
    /\ last.op = "SepBy" =>
        LET first == Rets(last.trace, <<1, 1>>)
            seps == Calls(last.trace, <<1, 2, 1, 1>>)
            items == SelectSeq(Rets(last.trace, <<1, 2, 1, 2>>), LAMBDA e : e.ok)
            vals == <<first[1]>> \o items
        IN /\ last.ok
           /\ Len(first) = 1
           /\ ~first[1].ok => last.val = <<>> /\ scanner.pos = last.pre.pos
           /\ first[1].ok =>
                /\ last.val = [i \in 1..Len(vals) |-> vals[i].val]
                /\ scanner.pos = vals[Len(vals)].pos
                /\ Len(seps) = Len(vals)
                /\ \A i \in 1..Len(seps) : seps[i].pos = vals[i].pos
    /\ last.op = "SepBy1" =>
        LET first == Rets(last.trace, <<1>>)
        IN /\ Len(first) = 1
           /\ last.ok = first[1].ok
           /\ ~first[1].ok => last.err = first[1].err

\* The first p consumed an item and failed, and SepBy returned the empty
\* list from the entry position.
C24_Witness ==
    /\ last.op = "SepBy"
    /\ ~Rets(last.trace, <<1, 1>>)[1].ok
    /\ Rets(last.trace, <<1, 1>>)[1].pos > last.pre.pos
    /\ last.val = <<>>
    /\ scanner.pos = last.pre.pos

\* C25: ManyTill(p, e) attempts e first at every step; when e succeeds its
\* input stays consumed and the values of p so far are returned; when e
\* fails the cursor is put back to where the attempt began and p is applied,
\* and a failure of p fails ManyTill with that error, the cursor left where
\* p left it.
C25_ManyTill ==
    last.op = "ManyTill" =>
        LET ce == Calls(last.trace, <<2>>)
            re == Rets(last.trace, <<2>>)
            cp == Calls(last.trace, <<1>>)
            rp == Rets(last.trace, <<1>>)
            k == Len(re)
        IN /\ k >= 1 /\ Len(ce) = k
           /\ Len(cp) = Len(rp)
           /\ ce[1].pos = last.pre.pos
           /\ \A i \in 1..(k - 1) : ~re[i].ok
           /\ \A i \in 1..Len(cp) : cp[i].pos = ce[i].pos
           /\ \A i \in 2..k : rp[i - 1].ok /\ ce[i].pos = rp[i - 1].pos
           /\ last.ok = re[k].ok
           /\ last.ok =>
                /\ Len(rp) = k - 1
                /\ last.val = [i \in 1..(k - 1) |-> rp[i].val]
                /\ scanner.pos = re[k].pos
           /\ ~last.ok =>
                /\ Len(rp) = k
                /\ ~rp[k].ok
                /\ last.err = rp[k].err
                /\ scanner.pos = rp[k].pos

\* A failing attempt of e consumed an item, p then took one from the same
\* position, and on the next step p consumed an item and failed.
C25_Witness ==
    /\ last.op = "ManyTill"
    /\ ~last.ok
    /\ Len(Rets(last.trace, <<1>>)) = 2
    /\ Rets(last.trace, <<2>>)[1].pos > last.pre.pos
    /\ scanner.pos > Calls(last.trace, <<1>>)[2].pos

\* C27: LookAhead(p) leaves the cursor where it was before the call whether
\* p succeeds or fails, and returns p's value or p's error.
C27_LookAhead ==
    last.op = "LookAhead" =>
        LET r == Rets(last.trace, <<1>>)
        IN /\ Len(r) = 1
           /\ scanner.pos = last.pre.pos
           /\ last.ok = r[1].ok
           /\ last.val = r[1].val
           /\ last.err = r[1].err

\* p succeeded two items further on.
C27_Witness ==
    /\ last.op = "LookAhead"
    /\ last.ok
    /\ Rets(last.trace, <<1>>)[1].pos = last.pre.pos + 2

\* C28: Maybe(p) never fails: when p succeeds it returns a pointer to p's
\* value and keeps p's consumption; when p fails it returns nil and the
\* cursor is back where it was before Maybe ran.
C28_Maybe ==
    last.op = "Maybe" =>
        LET r == Rets(last.trace, <<1>>)
        IN /\ Len(r) = 1
           /\ last.ok /\ last.err = NoErr
           /\ r[1].ok => last.val = <<r[1].val>> /\ scanner.pos = r[1].pos
           /\ ~r[1].ok => last.val = <<>> /\ scanner.pos = last.pre.pos

\* p consumed an item and failed.
C28_Witness ==
    /\ last.op = "Maybe"
    /\ ~Rets(last.trace, <<1>>)[1].ok
    /\ Rets(last.trace, <<1>>)[1].pos > last.pre.pos

(***************************************************************************)
(* Further claims about the chain combinators                              *)
(***************************************************************************)
\* Where the k-th Lift2(f, op, Bind(p, chain)) of ChainR1 runs.
RECURSIVE Link(_)
Link(k) == IF k = 1 THEN <<2, 1>> ELSE <<2, 1, 2>> \o Link(k - 1)

\* The operators the call attempted after its first operand.
Attempts ==
    IF last.op = "ChainL1" THEN Len(Calls(last.trace, <<2, 1>>))
    ELSE Cardinality({k \in 1..MaxChain : Calls(last.trace, Link(k) \o <<1>>) # <<>>})

\* The call and the return of the k-th operator parser, and the return of
\* the operand parser after it (every operator before it having succeeded).
OpCall(k) ==
    IF last.op = "ChainL1" THEN Calls(last.trace, <<2, 1>>)[k]
    ELSE Calls(last.trace, Link(k) \o <<1>>)[1]

OpRet(k) ==
    IF last.op = "ChainL1" THEN Rets(last.trace, <<2, 1>>)[k]
    ELSE Rets(last.trace, Link(k) \o <<1>>)[1]

OperandRet(k) ==
    IF last.op = "ChainL1" THEN Rets(last.trace, <<2, 2>>)[k]
    ELSE Rets(last.trace, Link(k) \o <<2, 1>>)[1]

\* C26: ChainL1 and ChainR1 fail exactly when the initial p fails; when an
\* operator is parsed and the p after it fails, the cursor is put back to the
\* position before that operator and the value accumulated so far is
\* returned as a success.
C26_DanglingOperator ==
    last.op \in {"ChainL1", "ChainR1"} =>
        LET first == Rets(last.trace, <<1>>)
            m == Attempts
            b == last.pre.pos + 1
        IN /\ Len(first) = 1
           /\ last.ok = first[1].ok
           /\ ~first[1].ok => last.err = first[1].err
           /\ first[1].ok =>
                /\ m >= 1
                /\ \A k \in 1..(m - 1) : OpRet(k).ok /\ OperandRet(k).ok
                /\ OpRet(m).ok =>
                     /\ ~OperandRet(m).ok
                     /\ scanner.pos = OpCall(m).pos
                     /\ last.op = "ChainL1" => last.val = FoldLeft(b, m - 1)
                     /\ last.op = "ChainR1" => last.val = FoldRight(b, m - 1)

\* ChainR1 on x + y + x: the operand after the second operator consumed an
\* item and failed.
C26_Witness ==
    /\ last.op = "ChainR1"
    /\ last.ok
    /\ Attempts = 2
    /\ OpRet(2).ok
    /\ OperandRet(2).pos > OpRet(2).pos
    /\ scanner.pos = last.pre.pos + 3

(***************************************************************************)
(* Claims about the Lexer's position and line counter                      *)
(***************************************************************************)
\* The newlines in input[0:pos].
Newlines(pos) == Cardinality({i \in 1..pos : input[i].r = "nl"})

\* C29: Read followed by Backup restores pos and line to their values before
\* the Read, for a rune of any width; in every reachable state of the lexer
\* line = 1 + the newlines in input[0:pos], and the Line of an emitted token
\* is that value at the moment of Emit.
C29_LineCounter ==
    /\ LET l == Lexer_Backup(Lexer_Read(lexer).l)
       IN l.pos = lexer.pos /\ l.line = lexer.line
    /\ lexer.line = 1 + Newlines(lexer.pos)
    /\ \A i \in 1..Len(prod.emitted) :
         prod.emitted[i].Line = 1 + Newlines(prod.emitted[i].Start + prod.emitted[i].Span)

\* A newline was read and backed over, and a token had been emitted after a
\* newline before.
C29_Witness ==
    /\ Len(prod.emitted) = 1
    /\ prod.emitted[1].Line = 2
    /\ ~lexer.isnil
    /\ lexer.pos < Len(input)
    /\ input[lexer.pos + 1].r = "nl"
    /\ lexer.line = 2
    /\ Len(lexer.width) = 1

\* C30: Backup with no read rune left to back over, before any Read or after
\* every Read has been backed up, does nothing: it does not panic and leaves
\* pos, line and start unchanged.
C30_BackupAtStart ==
    [][(LexBackup /\ lexer.width = <<>>) => (prod'.pc = "run" /\ lexer' = lexer)]_vars

(***************************************************************************)
(* Claims about recursion through Fix                                      *)
(***************************************************************************)
\* The entries into the parser f returned, in the order they happened.
Entries(trace) ==
    SelectSeq(trace, LAMBDA e : e.ev = "call" /\ e.path # <<>> /\ e.path[Len(e.path)] = 0)

\* No call overflowed the stack, every entry made within another entry is at
\* a strictly greater position, and the entries nest no deeper than the
\* input is long.
Terminates(trace) ==
    LET en == Entries(trace)
    IN /\ ~Overflowed
       /\ \A i, j \in 1..Len(en) :
            (Len(en[i].path) < Len(en[j].path) /\ IsPrefix(en[i].path, en[j].path))
                => en[i].pos < en[j].pos
       /\ \A i \in 1..Len(en) : Depth(en[i].path) <= Len(src) + 1

\* C21 as stated: a grammar built with Fix that has a non-recursive base
\* alternative terminates on every input, each re-entry being at a strictly
\* greater position. (Each grammar of Grammars has such an alternative.)
C21_FixTerminates == last.op = "Fix" => Terminates(last.trace)

\* C21, amended: a grammar built with Fix in which the parser is re-entered
\* only after a parser that consumed at least one item since the entry
\* terminates on every input: each re-entry is at a strictly greater
\* position and the entries nest no deeper than the input is long.
C21_GuardedFixTerminates ==
    (last.op = "Fix" /\ last.p.f \in {"nested", "list"}) => Terminates(last.trace)

\* The nested grammar was entered three times, on b b a.
C21_Witness ==
    /\ last.op = "Fix"
    /\ last.p.f = "nested"
    /\ Len(Entries(last.trace)) = 3

(***************************************************************************)
(* Further claims about the Lexer                                          *)
(***************************************************************************)
\* What k calls of Backup do, one after the other: the pos and line each
\* leaves, up to the call that panics.
RECURSIVE Backups(_, _)
Backups(l, k) ==
    IF k = 0 THEN <<>>
    ELSE IF Lexer_BackupPanics(l) THEN <<"panic">>
    ELSE LET b == Lexer_Backup(l)
         IN <<[pos |-> b.pos, line |-> b.line]>> \o Backups(b, k - 1)

\* C31: Peek returns the rune the next Read returns and leaves pos, line and
\* start as they were, and the calls of Backup after it behave as they
\* would have without the Peek.
C31_PeekUnchanged ==
    [][LexPeek =>
         /\ lexer'.pos = lexer.pos
         /\ lexer'.line = lexer.line
         /\ lexer'.start = lexer.start
         /\ Lexer_Read(lexer').r = Lexer_Read(lexer).r
         /\ Backups(lexer', MaxRunes + 1) = Backups(lexer, MaxRunes + 1)]_vars

(***************************************************************************)
(* Further claims about the combinators over the generic Scanner           *)
(***************************************************************************)
SeqOps ==
    {"Bind", "DiscardLeft", "DiscardRight", "Wrap", "Lift2", "Both", "Lift3", "Lift4",
     "List"}

\* The trace paths of the component parsers of the sequencing combinator
\* that ran, from left to right.
SeqPaths ==
    CASE last.op = "Wrap" -> <<(<<1, 1>>), (<<1, 2>>), (<<2>>)>>
      [] last.op = "Lift3" -> <<(<<1>>), (<<2>>), (<<3>>)>>
      [] last.op = "Lift4" -> <<(<<1>>), (<<2>>), (<<3>>), (<<4>>)>>
      [] last.op = "List" -> [i \in 1..Len(last.p.ps) |-> <<i>>]
      [] OTHER -> <<(<<1>>), (<<2>>)>>

\* The calls and returns of the component parsers, in the order they happened.
SeqEvents ==
    SelectSeq(last.trace, LAMBDA e : \E k \in 1..Len(SeqPaths) : e.path = SeqPaths[k])

\* C34: a sequencing combinator (Bind, DiscardLeft, DiscardRight, Wrap, Lift2,
\* Both, Lift3, Lift4, List) runs its components strictly left to right, each
\* from the position the one before it reached; at the first component that
\* fails it runs no later component, does not apply its function, returns
\* that component's error and leaves the cursor where that component left it.
C34_Sequencing ==
    last.op \in SeqOps =>
        LET ev == SeqEvents
            m == Len(ev) \div 2
        IN /\ Len(ev) = 2 * m
           /\ m <= Len(SeqPaths)
           /\ \A k \in 1..m :
                 /\ ev[2 * k - 1].ev = "call" /\ ev[2 * k - 1].path = SeqPaths[k]
                 /\ ev[2 * k].ev = "ret" /\ ev[2 * k].path = SeqPaths[k]
                 /\ ev[2 * k - 1].pos = IF k = 1 THEN last.pre.pos ELSE ev[2 * k - 2].pos
                 /\ k < m => ev[2 * k].ok
           /\ m < Len(SeqPaths) => m > 0 /\ ~ev[2 * m].ok
           /\ m > 0 /\ ~ev[2 * m].ok =>
                 /\ ~last.ok
                 /\ last.err = ev[2 * m].err
                 /\ last.val = Zero
                 /\ scanner.pos = ev[2 * m].pos

\* The third of four components failed after it and the two before it
\* consumed input.
C34_Witness ==
    /\ last.op = "Lift4"
    /\ ~last.ok
    /\ Len(SeqEvents) = 6
    /\ SeqEvents[2].pos > last.pre.pos
    /\ SeqEvents[6].pos > SeqEvents[4].pos
    /\ scanner.pos = SeqEvents[6].pos

\* C35: Or(p, q) and Choice(msg, p, q) follow the same policy: from the same
\* scanner they succeed alike with the same value and leave the cursor at the
\* same position in every outcome, the one where both alternatives fail
\* included.
C35_OrLikeChoice ==
    last.op = "Or" =>
        LET c == Run(Choice("greeting", <<last.p.p, last.p.q>>), WithTrace(last.pre), <<>>)
        IN /\ c.ok = last.ok
           /\ c.val = last.val
           /\ c.s.pos = scanner.pos

\* C36: in every state of the lexer 0 <= start <= pos <= len(input): Backup
\* never moves pos below the start marker the last Emit or Drop set, so Body
\* and Emit never slice input[start:pos] out of range.
C36_StartBelowPos ==
    /\ 0 <= lexer.start
    /\ lexer.start <= lexer.pos
    /\ lexer.pos <= Len(input)

\* C37: Option(fallback, p) never fails: it returns the value of p when p
\* succeeds and fallback when p fails, and when p fails the cursor is at the
\* position it had before Option ran, even if p consumed input before failing.
C37_OptionRestores ==
    last.op = "Option" =>
        LET r == Rets(last.trace, <<1>>)[1]
        IN /\ last.ok
           /\ r.ok => last.val = r.val /\ scanner.pos = r.pos
           /\ ~r.ok => last.val = last.p.fallback /\ scanner.pos = last.pre.pos

\* C39: when the last element SepBy(sep, p) or SepBy1(sep, p) parsed is
\* followed by a separator that is not followed by a p, the elements parsed so
\* far are returned and the cursor is before that trailing separator, which
\* stays unconsumed.
C39_TrailingSeparator ==
    last.op \in {"SepBy", "SepBy1"} =>
        LET pf == IF last.op = "SepBy" THEN <<1>> ELSE <<>>
            first == Rets(last.trace, pf \o <<1>>)
            seps == Calls(last.trace, pf \o <<2, 1, 1>>)
            items == Rets(last.trace, pf \o <<2, 1, 2>>)
            n == Len(items)
        IN (n >= 1 /\ ~items[n].ok) =>
              /\ last.ok
              /\ last.val = <<first[1].val>> \o [i \in 1..(n - 1) |-> items[i].val]
              /\ scanner.pos = seps[n].pos
              /\ seps[n].pos = IF n = 1 THEN first[1].pos ELSE items[n - 1].pos

\* One element, then a separator that was consumed and an element that
\* failed after consuming: the cursor is back before the separator.
C39_Witness ==
    /\ last.op = "SepBy"
    /\ last.ok
    /\ Len(last.val) = 1
    /\ Len(Rets(last.trace, <<1, 2, 1, 2>>)) = 1
    /\ ~Rets(last.trace, <<1, 2, 1, 2>>)[1].ok
    /\ Rets(last.trace, <<1, 2, 1, 1>>)[1].pos > scanner.pos
    /\ Rets(last.trace, <<1, 2, 1, 2>>)[1].pos > Rets(last.trace, <<1, 2, 1, 1>>)[1].pos
    /\ scanner.pos > last.pre.pos

(***************************************************************************)
(* Further claims about the text Scanner and the avram combinators         *)
(***************************************************************************)
\* The alternatives of the last TryChoice that were run, each run once from
\* the entry position, and all but the last of them failed.
TriedInOrder ==
    LET n == Len(last.p.ps)
        k == Cardinality({i \in 1..n : Calls(last.trace, <<i>>) # <<>>})
    IN /\ k >= 1
       /\ \A i \in 1..n :
            /\ Len(Calls(last.trace, <<i>>)) = (IF i <= k THEN 1 ELSE 0)
            /\ i <= k => Calls(last.trace, <<i>>)[1].pos = last.pre.pos
            /\ i < k => ~Rets(last.trace, <<i>>)[1].ok
       /\ k < n => Rets(last.trace, <<k>>)[1].ok
       /\ last.ok = Rets(last.trace, <<k>>)[1].ok
       /\ last.ok => last.val = Rets(last.trace, <<k>>)[1].val
       /\ text.pos = Rets(last.trace, <<k>>)[1].pos

\* The errors of the alternatives 1..k of the last TryChoice, appended.
RECURSIVE TriedErrors(_)
TriedErrors(k) ==
    IF k = 0 THEN NoErr ELSE TriedErrors(k - 1) \o Rets(last.trace, <<k>>)[1].err

\* C32 as stated: TryChoice tries every alternative in order from the entry
\* position whatever a failed one consumed, returns the first success and
\* fails only if the final alternative fails, and then the error is the
\* final alternative's own error, unmodified.
C32_TryChoiceRawError ==
    last.op = "TryChoice" =>
        /\ TriedInOrder
        /\ ~last.ok => last.err = Rets(last.trace, <<Len(last.p.ps)>>)[1].err

\* C32, amended: as above, but the error is "expected msg" wrapping the
\* errors of all the alternatives in order, the final one's among them.
C32_TryChoiceWrappedError ==
    last.op = "TryChoice" =>
        /\ TriedInOrder
        /\ ~last.ok => last.err = Expected(last.p.msg, TriedErrors(Len(last.p.ps)))

\* The first alternative read a rune and failed, the second failed, and the
\* final one read a rune and failed.
C32_Witness ==
    /\ last.op = "TryChoice"
    /\ Len(last.p.ps) = 3
    /\ ~last.ok
    /\ Rets(last.trace, <<1, 1>>)[1].pos > last.pre.pos
    /\ text.pos > last.pre.pos

\* The bytes of the input a successful match primitive returned: the rune of
\* MatchRune, the target of MatchString, the matched slice of MatchRegexp.
MatchedBytes ==
    CASE last.op = "MatchRune" -> Encode(last.val)
      [] last.op = "MatchString" -> EncodeAll(last.val)
      [] last.op = "MatchRegexp" -> last.val

\* C33: MatchRune, MatchString and MatchRegexp advance pos only when they find
\* a match: after a failure (a mismatch at any rune, or the end of the input
\* part-way through) pos is what it was before the call, and after a success
\* pos has advanced by exactly the byte length of the matched text, which is
\* the input between the two positions.
C33_MatchAdvancesPos ==
    last.op \in {"MatchRune", "MatchString", "MatchRegexp"} =>
        IF last.ok
        THEN /\ text.pos = last.pre.pos + Len(MatchedBytes)
             /\ text.pos <= Len(input)
             /\ SubSeq(input, last.pre.pos + 1, text.pos) = MatchedBytes
        ELSE text.pos = last.pre.pos

\* MatchString fails at the end of the input after it read the first rune of
\* its target.
C33_Witness ==
    /\ last.op = "MatchString"
    /\ ~last.ok
    /\ last.err = ErrEOF
    /\ last.pre.pos < Len(input)
    /\ text.pos = last.pre.pos


\* The runes of the input from byte offset pos on.
RECURSIVE RunesFrom(_)
RunesFrom(pos) ==
    IF pos >= Len(input) THEN <<>>
    ELSE <<DecodeRune(pos).r>> \o RunesFrom(pos + DecodeRune(pos).w)

\* The (operator, operand) pairs that follow the first operand of rs.
RECURSIVE TPairs(_, _)
TPairs(rs, k) ==
    IF Len(rs) >= 2 * k + 3 /\ rs[2 * k + 2] = "nl" /\ rs[2 * k + 3] \in {"a", "ee"}
    THEN TPairs(rs, k + 1)
    ELSE k

\* ((a (+) b) (+) c): the left fold of the first k pairs of rs.
RECURSIVE TFoldLeft(_, _)
TFoldLeft(rs, k) ==
    IF k = 0 THEN <<rs[1]>>
    ELSE CallOp(rs[2 * k], TFoldLeft(rs, k - 1), <<rs[2 * k + 1]>>)

\* C38: on operand (op operand)* the recursive avram.ChainL1 returns the
\* left-associative application of the operator functions to the operands,
\* ((a (+) b) (+) c) for a op b op c (7-2-1 is 4).
C38_LeftAssociative ==
    (last.op = "avram.ChainL1" /\ RunesFrom(last.pre.pos) # <<>>
        /\ RunesFrom(last.pre.pos)[1] \in {"a", "ee"}) =>
        LET rs == RunesFrom(last.pre.pos)
        IN /\ last.ok
           /\ last.val = TFoldLeft(rs, TPairs(rs, 0))

(***************************************************************************)
(* Claims about the SQL lexer                                              *)
(***************************************************************************)
\* C40: the SQL lexer terminates on every finite input, one that ends inside
\* an unterminated double-quoted name or inside a line comment without a
\* newline included: the state machine reaches the terminal state or a fatal
\* error, the token stream is closed, and a consumer draining Next eventually
\* gets false.
C40_SqlTerminates == <>(tokens.closed /\ cons.done)

====
